---------------------------- MODULE Spec2Model ----------------------------
(***************************************************************************)
(* Model of the data-access layer of the Smart Medication System           *)
(* (src/models.py, class DatabaseManager) over its MongoDB collections.    *)
(*                                                                         *)
(* Every collection is a set of documents (records with an _id).  The      *)
(* unique indexes that _create_indexes declares are modelled where the     *)
(* inserts happen: an insert that would repeat a uniquely indexed key      *)
(* raises DuplicateKeyError, which the operation's "except Exception"      *)
(* turns into an error result.  What an operation returns is an operator   *)
(* of the state it is called in (..._result, ..._check); the action of     *)
(* the operation changes the store accordingly.  Timestamps that are only  *)
(* stored (created_at, updated_at, taken_at) are left out of the           *)
(* documents; the dates and the clock the code computes with are kept.     *)
(***************************************************************************)
EXTENDS Integers, Sequences, FiniteSets, TLC

VARIABLES users, patients, guardians, pharmacies, medications,
          medication_logs, symptoms, guardian_links,
          nextId, now, calls, session

store == <<users, patients, guardians, pharmacies, medications,
           medication_logs, symptoms, guardian_links>>

vars == <<users, patients, guardians, pharmacies, medications,
          medication_logs, symptoms, guardian_links, nextId, now, calls,
          session>>

----------------------------------------------------------------------------
(* Bounds of the model *)

\* ObjectIds handed out by insert_one during one run of account creation
MaxIds == 4

\* advances of the wall clock during one run
MaxTicks == 2

\* medications added during one run
MaxMeds == 2

\* medication logs written during one run
MaxLogs == 2

\* symptom records inserted during one run
MaxSymptoms == 3

\* guardian links inserted during one run
MaxLinks == 3

\* items pushed to the inventory of one pharmacy during one run
MaxItems == 3

----------------------------------------------------------------------------
(* Program constants and the environment *)

\* _generate_guardian_code: max_attempts
max_attempts == 10

\* age bounds of create_patient_profile
MinAge == 0

MaxAge == 150

\* bounds of mood, energy_level and pain_level in log_symptom
MinScale == 1

MaxScale == 10

\* bounds of days in get_medication_compliance
MinDays == 1

MaxDays == 365

\* datetime.utcnow().timestamp() when the run starts (2025-11-04 01:00:00
\* UTC), and the seconds one tick of the clock adds
BaseTime == 1762218000

TickSeconds == 43200

SecondsPerDay == 86400

\* worker threads serving requests against the one shared store
Procs == {"w1", "w2"}

None == "None"

Emails == {"a@x.org", "b@x.org", ""}

Passwords == {"pw", ""}

Roles == {"patient", "guardian", "pharmacy", "admin"}

ValidRoles == {"patient", "guardian", "pharmacy"}

Names == {"Ann", ""}

Genders == {"F", ""}

Ages == {-1, 0, 1, 150, 151}

\* the ages at and beyond both ends of the accepted range
EdgeAges == {-1, 0, 150, 151}

\* values random.randint(100000, 999999) may return
RandomDraws == {218000, 999999}

\* values bcrypt.gensalt() may return
Salts == {"s1"}

Phones == {"555", ""}

\* ids a caller may pass: 0 stands for a missing (falsy) id
UserIds == 0..MaxIds

\* time-of-day strings, as sequences of characters
t0800 == <<"0", "8", ":", "0", "0">>

t2000 == <<"2", "0", ":", "0", "0">>

t2500 == <<"2", "5", ":", "0", "0">>

\* the times lists add_medication is called with
TimesInputs == {<<>>, <<t2000, t0800>>, <<t2500>>}

MedNames == {" B ", ""}

\* the day counts get_medication_compliance is called with
DaysInputs == {0, 1, 2, 7, 365, 366}

----------------------------------------------------------------------------
(* Strings *)

DigitChars == <<"0", "1", "2", "3", "4", "5", "6", "7", "8", "9">>

IsDigit(c) == \E i \in 1..10 : DigitChars[i] = c

RECURSIVE str(_)
\* Python's str(n) of a non-negative int, as a sequence of characters
str(n) == IF n < 10 THEN <<DigitChars[n + 1]>>
          ELSE Append(str(n \div 10), DigitChars[(n % 10) + 1])

\* Python's s[-k:]
Tail_k(s, k) == IF Len(s) <= k THEN s ELSE SubSeq(s, Len(s) - k + 1, Len(s))

SixDigits(c) == Len(c) = 6 /\ \A i \in 1..6 : IsDigit(c[i])

\* str.strip() on the strings of the model
strip(s) == IF s = " B " THEN "B" ELSE s

\* the characters of the model's strings in code-point order
CodePoints == <<"0", "1", "2", "3", "4", "5", "6", "7", "8", "9", ":", "a", "m">>

ord(c) == CHOOSE i \in 1..Len(CodePoints) : CodePoints[i] = c

DigitValue(c) == ord(c) - 1

RECURSIVE StrLess(_, _)
\* a < b for Python strings: the first differing character decides, and a
\* proper prefix comes first
StrLess(a, b) ==
    IF b = <<>> THEN FALSE
    ELSE IF a = <<>> THEN TRUE
    ELSE IF Head(a) # Head(b) THEN ord(Head(a)) < ord(Head(b))
    ELSE StrLess(Tail(a), Tail(b))

\* %H of strptime: one digit, or two digits making 00..23
MatchesH(h) ==
    /\ Len(h) \in {1, 2}
    /\ \A i \in 1..Len(h) : IsDigit(h[i])
    /\ Len(h) = 2 => DigitValue(h[1]) * 10 + DigitValue(h[2]) <= 23

\* %M of strptime: one digit, or two digits making 00..59
MatchesM(m) ==
    /\ Len(m) \in {1, 2}
    /\ \A i \in 1..Len(m) : IsDigit(m[i])
    /\ Len(m) = 2 => DigitValue(m[1]) <= 5

\* datetime.strptime(time_str, '%H:%M') succeeds
strptime_HM(time_str) ==
    \E k \in 1..Len(time_str) :
       /\ time_str[k] = ":"
       /\ MatchesH(SubSeq(time_str, 1, k - 1))
       /\ MatchesM(SubSeq(time_str, k + 1, Len(time_str)))

\* Python truthiness of an int argument
Truthy(n) == n # 0

\* a keyword argument: None, or a value v passed as Some(v)
NoneArg == <<>>

Some(v) == <<v>>

----------------------------------------------------------------------------
(* Dates *)

\* datetime.date(): the day of an instant, counted from 1970-01-01
date(t) == t \div SecondsPerDay

\* date.isoformat(): "YYYY-MM-DD" as <<year, month, day>>; with four-digit
\* years and two-digit months and days the strings compare as these tuples
isoformat(day) ==
    LET z == day + 719468
        era == z \div 146097
        doe == z - era * 146097
        yoe == (doe - doe \div 1460 + doe \div 36524 - doe \div 146096) \div 365
        doy == doe - (365 * yoe + yoe \div 4 - yoe \div 100)
        mp == (5 * doy + 2) \div 153
        d == doy - (153 * mp + 2) \div 5 + 1
        m == IF mp < 10 THEN mp + 3 ELSE mp - 9
        y == yoe + era * 400 + (IF m <= 2 THEN 1 ELSE 0)
    IN <<y, m, d>>

\* the order of two ISO date strings ($gte / $lte on strings)
IsoLeq(a, b) ==
    \/ a[1] < b[1]
    \/ a[1] = b[1] /\ a[2] < b[2]
    \/ a[1] = b[1] /\ a[2] = b[2] /\ a[3] <= b[3]

----------------------------------------------------------------------------
(* bcrypt *)

hashpw(password, salt) == [salt |-> salt, digest |-> <<salt, password>>]

checkpw(password, hashed) == hashpw(password, hashed.salt) = hashed

----------------------------------------------------------------------------
(* Results *)

\* a success result; id is the id it carries (0: it carries none)
Ok(id) == [ok |-> TRUE, error |-> None, id |-> id]

Err(msg) == [ok |-> FALSE, error |-> msg, id |-> 0]

\* the "Failed to ...: <exception>" result of an operation's except clause
Raised(exc) == [ok |-> FALSE, error |-> exc, id |-> 0]

idle == [pc |-> "idle"]

\* the browsers that hold a session cookie
Clients == {"c1", "c2"}

\* the Flask session of a client that has not logged in: no keys
no_session == [k \in {} |-> ""]

----------------------------------------------------------------------------
(* Unique indexes *)

\* the value a unique index stores for a document: a missing field is null
IndexKey(doc, fld) == IF fld \in DOMAIN doc THEN doc[fld] ELSE "null"

DupUsersNoIndex(doc) == FALSE

\* users.create_index("email", unique=True)
DupUsers(doc) == \E u \in users : IndexKey(u, "email") = IndexKey(doc, "email")

DupPatientsNoIndex(doc) == FALSE

\* patients.create_index("guardian_code", unique=True)
DupPatients(doc) ==
    \E q \in patients : IndexKey(q, "guardian_code") = IndexKey(doc, "guardian_code")

\* pharmacies.create_index("email", unique=True)
DupPharmacies(doc) ==
    \E q \in pharmacies : IndexKey(q, "email") = IndexKey(doc, "email")

DupGuardianLinksNoIndex(doc) == FALSE

\* guardian_links.create_index([patient_id, guardian_id], unique=True)
DupGuardianLinks(doc) ==
    \E l \in guardian_links : l.patient_id = doc.patient_id
                              /\ l.guardian_id = doc.guardian_id

----------------------------------------------------------------------------
Init ==
    /\ users = {}
    /\ patients = {}
    /\ guardians = {}
    /\ pharmacies = {}
    /\ medications = {}
    /\ medication_logs = {}
    /\ symptoms = {}
    /\ guardian_links = {}
    /\ nextId = 1
    /\ now = BaseTime
    /\ calls = [p \in Procs |-> idle]
    /\ session = [c \in Clients |-> no_session]

\* the wall clock advances
Tick ==
    /\ now < BaseTime + MaxTicks * TickSeconds
    /\ now' = now + TickSeconds
    /\ UNCHANGED <<store, nextId, calls, session>>

----------------------------------------------------------------------------
(* create_user *)

user_data(id, email, password, role, salt) ==
    [_id |-> id, email |-> email, password |-> hashpw(password, salt),
     role |-> role, is_active |-> TRUE]

\* the validation and the find_one of create_user: the error it returns
\* with before the insert, or None
create_user_check(email, password, role) ==
    IF email = "" \/ password = "" \/ role = ""
    THEN "Email, password, and role are required"
    ELSE IF role \notin ValidRoles THEN "Invalid role"
    ELSE IF \E u \in users : u.email = email THEN "Email already exists"
    ELSE None

\* users.insert_one(user_data) and the return after it
insert_user_result(doc) ==
    IF DupUsers(doc) THEN Raised("DuplicateKeyError") ELSE Ok(doc._id)

\* what create_user returns when no other call runs during it
create_user_result(email, password, role, salt) ==
    LET e == create_user_check(email, password, role) IN
    IF e # None THEN Err(e)
    ELSE insert_user_result(user_data(nextId, email, password, role, salt))

\* create_user, first half: a worker validates and looks the email up; with
\* an error it returns, otherwise it goes on to the insert
CreateUserCheck(p, email, password, role) ==
    /\ calls[p].pc = "idle"
    /\ IF create_user_check(email, password, role) # None
       THEN UNCHANGED calls
       ELSE \E salt \in Salts :
               calls' = [calls EXCEPT ![p] =
                  [pc |-> "user_insert", email |-> email,
                   password |-> password, role |-> role, salt |-> salt]]
    /\ UNCHANGED <<store, nextId, now, session>>

\* the document a worker at its insert is about to insert
pending_user(p) ==
    user_data(nextId, calls[p].email, calls[p].password, calls[p].role,
              calls[p].salt)

\* create_user, second half: users.insert_one under the unique email index
CreateUserInsert(p) ==
    /\ calls[p].pc = "user_insert"
    /\ IF insert_user_result(pending_user(p)).ok
       THEN /\ nextId <= MaxIds
            /\ users' = users \cup {pending_user(p)}
            /\ nextId' = nextId + 1
       ELSE UNCHANGED <<users, nextId>>
    /\ calls' = [calls EXCEPT ![p] = idle]
    /\ UNCHANGED <<patients, guardians, pharmacies, medications,
                   medication_logs, symptoms, guardian_links, now, session>>

\* create_user as one step: the whole call with no other call in between
CreateUser(email, password, role) ==
    /\ nextId <= MaxIds
    /\ \E salt \in Salts :
          IF create_user_result(email, password, role, salt).ok
          THEN /\ users' = users \cup
                     {user_data(nextId, email, password, role, salt)}
               /\ nextId' = nextId + 1
          ELSE UNCHANGED <<users, nextId>>
    /\ UNCHANGED <<patients, guardians, pharmacies, medications,
                   medication_logs, symptoms, guardian_links, now, calls,
                   session>>

----------------------------------------------------------------------------
(* create_patient_profile and _generate_guardian_code *)

patient_data(id, user_id, name, age, gender, code) ==
    [_id |-> id, user_id |-> user_id, name |-> name, age |-> age,
     gender |-> gender, allergies |-> <<>>, medical_conditions |-> <<>>,
     guardian_code |-> code]

\* the validation and the two find_one calls of create_patient_profile: the
\* error it returns with, or None
create_patient_profile_check(user_id, name, age, gender) ==
    IF ~Truthy(user_id) \/ name = "" \/ ~Truthy(age) \/ gender = ""
    THEN "User ID, name, age, and gender are required"
    ELSE IF age < MinAge \/ age > MaxAge THEN "Invalid age"
    ELSE IF ~\E u \in users : u._id = user_id /\ u.role = "patient"
    THEN "Invalid user or user is not a patient"
    ELSE IF \E q \in patients : q.user_id = user_id
    THEN "Patient profile already exists"
    ELSE None

\* create_patient_profile up to the call of _generate_guardian_code
PatientCheck(p, user_id, name, age, gender) ==
    /\ calls[p].pc = "idle"
    /\ IF create_patient_profile_check(user_id, name, age, gender) # None
       THEN UNCHANGED calls
       ELSE calls' = [calls EXCEPT ![p] =
               [pc |-> "patient_gen", user_id |-> user_id, name |-> name,
                age |-> age, gender |-> gender]]
    /\ UNCHANGED <<store, nextId, now, session>>

\* patients.find_one({"guardian_code": code})
CodeHeld(code) == \E q \in patients : q.guardian_code = code

CodeFreeUnchecked(code) == TRUE

\* the test of one attempt: the drawn code is returned if no patient holds it
CodeFree(code) == ~CodeHeld(code)

\* str(int(datetime.utcnow().timestamp()))[-6:]
timestamp_code(t) == Tail_k(str(t), 6)

RECURSIVE generate_guardian_code(_)
\* _generate_guardian_code from its attempt-th pass on: every value it may
\* return, with the path that returns it.  A pass draws a number and returns
\* its string if no patient holds it; if it drew a held code the loop goes
\* round again; after max_attempts passes the timestamp-based code is
\* returned as it is.
generate_guardian_code(attempt) ==
    IF attempt = max_attempts
    THEN {[code |-> timestamp_code(now), via |-> "fallback"]}
    ELSE LET free == {n \in RandomDraws : CodeFree(str(n))} IN
         {[code |-> str(n), via |-> "random"] : n \in free}
         \cup (IF free # RandomDraws
               THEN generate_guardian_code(attempt + 1) ELSE {})

\* the call of _generate_guardian_code while patient_data is built
GenerateCode(p) ==
    /\ calls[p].pc = "patient_gen"
    /\ \E r \in generate_guardian_code(0) :
          calls' = [calls EXCEPT ![p] =
             [pc |-> "patient_insert", user_id |-> @.user_id, name |-> @.name,
              age |-> @.age, gender |-> @.gender, code |-> r.code, via |-> r.via]]
    /\ UNCHANGED <<store, nextId, now, session>>

\* patients.insert_one(patient_data) and the return after it
insert_patient_result(doc) ==
    IF DupPatients(doc) THEN Raised("DuplicateKeyError") ELSE Ok(doc._id)

\* the document a worker at its insert is about to insert
pending_patient(p) ==
    patient_data(nextId, calls[p].user_id, calls[p].name, calls[p].age,
                 calls[p].gender, calls[p].code)

\* patients.insert_one under the unique guardian_code index
PatientInsert(p) ==
    /\ calls[p].pc = "patient_insert"
    /\ IF insert_patient_result(pending_patient(p)).ok
       THEN /\ nextId <= MaxIds
            /\ patients' = patients \cup {pending_patient(p)}
            /\ nextId' = nextId + 1
       ELSE UNCHANGED <<patients, nextId>>
    /\ calls' = [calls EXCEPT ![p] = idle]
    /\ UNCHANGED <<users, guardians, pharmacies, medications,
                   medication_logs, symptoms, guardian_links, now, session>>

----------------------------------------------------------------------------
(* create_guardian_profile *)

guardian_data(id, user_id, name, phone, relationship) ==
    [_id |-> id, user_id |-> user_id, name |-> name, phone |-> phone,
     relationship |-> relationship]

create_guardian_profile_check(user_id, name, phone, relationship) ==
    IF ~Truthy(user_id) \/ name = "" \/ phone = "" \/ relationship = ""
    THEN "All fields are required"
    ELSE IF ~\E u \in users : u._id = user_id /\ u.role = "guardian"
    THEN "Invalid user or user is not a guardian"
    ELSE IF \E g \in guardians : g.user_id = user_id
    THEN "Guardian profile already exists"
    ELSE None

GuardianCheck(p, user_id, name, phone, relationship) ==
    /\ calls[p].pc = "idle"
    /\ IF create_guardian_profile_check(user_id, name, phone, relationship) # None
       THEN UNCHANGED calls
       ELSE calls' = [calls EXCEPT ![p] =
               [pc |-> "guardian_insert", user_id |-> user_id, name |-> name,
                phone |-> phone, relationship |-> relationship]]
    /\ UNCHANGED <<store, nextId, now, session>>

\* guardians.insert_one: the guardians collection has no unique index
GuardianInsert(p) ==
    /\ calls[p].pc = "guardian_insert"
    /\ nextId <= MaxIds
    /\ guardians' = guardians \cup
          {guardian_data(nextId, calls[p].user_id, calls[p].name,
                         calls[p].phone, calls[p].relationship)}
    /\ nextId' = nextId + 1
    /\ calls' = [calls EXCEPT ![p] = idle]
    /\ UNCHANGED <<users, patients, pharmacies, medications,
                   medication_logs, symptoms, guardian_links, now, session>>

----------------------------------------------------------------------------
(* link_guardian_to_patient *)

\* find_one: the first of the matching documents in storage order
first_of(docs) == CHOOSE d \in docs : \A e \in docs : d._id <= e._id

patient_by_any_code(guardian_code) == patients

\* patients.find({"guardian_code": guardian_code})
patient_by_code(guardian_code) ==
    {q \in patients : q.guardian_code = guardian_code}

\* guardians.find({"user_id": guardian_user_id})
guardian_by_user(guardian_user_id) ==
    {g \in guardians : g.user_id = guardian_user_id}

link_data(id, patient_id, guardian_id) ==
    [_id |-> id, patient_id |-> patient_id, guardian_id |-> guardian_id,
     is_active |-> TRUE]

\* the validation and the three find_one calls of link_guardian_to_patient:
\* the error it returns with, or None (an empty code is falsy)
link_guardian_check(guardian_code, guardian_user_id) ==
    IF guardian_code = <<>> \/ ~Truthy(guardian_user_id)
    THEN "Guardian code and user ID are required"
    ELSE IF patient_by_code(guardian_code) = {} THEN "Invalid guardian code"
    ELSE IF guardian_by_user(guardian_user_id) = {}
    THEN "Guardian profile not found"
    ELSE IF \E l \in guardian_links :
               /\ l.patient_id = first_of(patient_by_code(guardian_code))._id
               /\ l.guardian_id = first_of(guardian_by_user(guardian_user_id))._id
    THEN "Guardian already linked to this patient"
    ELSE None

\* link_guardian_to_patient up to the building of link_data
LinkCheck(p, guardian_code, guardian_user_id) ==
    /\ calls[p].pc = "idle"
    /\ IF link_guardian_check(guardian_code, guardian_user_id) # None
       THEN UNCHANGED calls
       ELSE calls' = [calls EXCEPT ![p] =
               [pc |-> "link_insert", guardian_code |-> guardian_code,
                guardian_user_id |-> guardian_user_id,
                patient_id |-> first_of(patient_by_code(guardian_code))._id,
                guardian_id |-> first_of(guardian_by_user(guardian_user_id))._id]]
    /\ UNCHANGED <<store, nextId, now, session>>

\* the document a worker at its insert is about to insert
pending_link(p) == link_data(nextId, calls[p].patient_id, calls[p].guardian_id)

\* guardian_links.insert_one(link_data) and the return after it
insert_link_result(doc) ==
    IF DupGuardianLinks(doc) THEN Raised("DuplicateKeyError") ELSE Ok(doc._id)

\* guardian_links.insert_one under the unique (patient_id, guardian_id) index
LinkInsert(p) ==
    /\ calls[p].pc = "link_insert"
    /\ IF insert_link_result(pending_link(p)).ok
       THEN /\ Cardinality(guardian_links) < MaxLinks
            /\ guardian_links' = guardian_links \cup {pending_link(p)}
            /\ nextId' = nextId + 1
       ELSE UNCHANGED <<guardian_links, nextId>>
    /\ calls' = [calls EXCEPT ![p] = idle]
    /\ UNCHANGED <<users, patients, guardians, pharmacies, medications,
                   medication_logs, symptoms, now, session>>

----------------------------------------------------------------------------
(* create_pharmacy *)

\* the document create_pharmacy inserts: it carries no email field
pharmacy_data(id, user_id, name, address, phone, license_number) ==
    [_id |-> id, user_id |-> user_id, name |-> strip(name),
     address |-> strip(address), phone |-> strip(phone),
     license_number |-> strip(license_number),
     is_verified |-> FALSE, delivery_available |-> FALSE, inventory |-> <<>>]

\* the user create_pharmacy creates first, and the pharmacy it then inserts
pharmacy_user(email, password, salt) ==
    user_data(nextId, email, password, "pharmacy", salt)

pharmacy_doc(name, address, phone, license_number) ==
    pharmacy_data(nextId + 1, nextId, name, address, phone, license_number)

\* what create_pharmacy returns: the error of its validation, the error of
\* create_user, or the outcome of pharmacies.insert_one under the unique
\* index on pharmacies.email
create_pharmacy_result(email, password, name, address, phone, license_number, salt) ==
    IF email = "" \/ password = "" \/ name = "" \/ address = ""
       \/ phone = "" \/ license_number = ""
    THEN Err("All fields are required")
    ELSE IF ~create_user_result(email, password, "pharmacy", salt).ok
    THEN create_user_result(email, password, "pharmacy", salt)
    ELSE IF DupPharmacies(pharmacy_doc(name, address, phone, license_number))
    THEN Raised("DuplicateKeyError")
    ELSE Ok(nextId + 1)

\* create_pharmacy: past its validation it calls create_user, and once the
\* user is stored it inserts the pharmacy document
CreatePharmacy(email, password, name, address, phone, license_number) ==
    /\ nextId + 1 <= MaxIds
    /\ \E salt \in Salts :
          IF email = "" \/ password = "" \/ name = "" \/ address = ""
             \/ phone = "" \/ license_number = ""
          THEN UNCHANGED <<users, pharmacies, nextId>>
          ELSE IF ~create_user_result(email, password, "pharmacy", salt).ok
          THEN UNCHANGED <<users, pharmacies, nextId>>
          ELSE /\ users' = users \cup {pharmacy_user(email, password, salt)}
               /\ IF DupPharmacies(pharmacy_doc(name, address, phone,
                                                license_number))
                  THEN /\ nextId' = nextId + 1
                       /\ UNCHANGED pharmacies
                  ELSE /\ pharmacies' = pharmacies \cup
                             {pharmacy_doc(name, address, phone, license_number)}
                       /\ nextId' = nextId + 2
    /\ UNCHANGED <<patients, guardians, medications, medication_logs,
                   symptoms, guardian_links, now, calls, session>>

----------------------------------------------------------------------------
(* Pharmacy inventory: add_pharmacy_inventory and                          *)
(* search_pharmacies_by_medication.  Medication names are sequences of     *)
(* characters.                                                             *)

\* str.lower() of one character of the model's names
lower_char(c) == IF c = "A" THEN "a" ELSE IF c = "B" THEN "b" ELSE c

\* str.lower()
lower(s) == [i \in 1..Len(s) |-> lower_char(s[i])]

RECURSIVE lstrip(_)
lstrip(s) == IF s # <<>> /\ Head(s) = " " THEN lstrip(Tail(s)) ELSE s

RECURSIVE rstrip(_)
rstrip(s) ==
    IF s # <<>> /\ s[Len(s)] = " " THEN rstrip(SubSeq(s, 1, Len(s) - 1)) ELSE s

\* str.strip() of a sequence of characters
strip_seq(s) == rstrip(lstrip(s))

inventory_item(medication_name, price, in_stock) ==
    [medication_name |-> strip_seq(medication_name), price |-> price,
     in_stock |-> in_stock, updated_at |-> now]

\* the validation and the find_one of add_pharmacy_inventory: the error it
\* returns with, or None
add_pharmacy_inventory_check(pharmacy_id, medication_name, price) ==
    IF ~Truthy(pharmacy_id) \/ medication_name = <<>> \/ ~Truthy(price)
    THEN "Pharmacy ID, medication name, and price are required"
    ELSE IF price < 0 THEN "Price must be a positive number"
    ELSE IF ~\E ph \in pharmacies : ph._id = pharmacy_id
    THEN "Pharmacy not found"
    ELSE None

\* the new updated_at makes every matched document a modified one
add_pharmacy_inventory_result(pharmacy_id, medication_name, price) ==
    LET e == add_pharmacy_inventory_check(pharmacy_id, medication_name, price)
    IN IF e # None THEN Err(e) ELSE Ok(0)

\* the positions of the items next(...) looks through for existing_med: those
\* whose name in lower case is the given name in lower case
existing_med(inventory, medication_name) ==
    {i \in 1..Len(inventory) :
        lower(inventory[i].medication_name) = lower(medication_name)}

\* "inventory.$": the first item whose medication_name is the given one
positional(inventory, name) ==
    CHOOSE i \in 1..Len(inventory) :
       /\ inventory[i].medication_name = name
       /\ \A j \in 1..(i - 1) : inventory[j].medication_name # name

\* the inventory after the update_one of add_pharmacy_inventory
updated_inventory(inventory, medication_name, price, in_stock) ==
    IF existing_med(inventory, medication_name) # {}
    THEN LET first == CHOOSE i \in existing_med(inventory, medication_name) :
                         \A j \in existing_med(inventory, medication_name) : i <= j
             k == positional(inventory, inventory[first].medication_name)
         IN [inventory EXCEPT ![k] = [@ EXCEPT !.price = price,
                                               !.in_stock = in_stock,
                                               !.updated_at = now]]
    ELSE Append(inventory, inventory_item(medication_name, price, in_stock))

AddPharmacyInventory(pharmacy_id, medication_name, price, in_stock) ==
    /\ IF add_pharmacy_inventory_result(pharmacy_id, medication_name, price).ok
       THEN /\ \A ph \in pharmacies :
                  ph._id = pharmacy_id =>
                     Len(updated_inventory(ph.inventory, medication_name,
                                           price, in_stock)) <= MaxItems
            /\ pharmacies' =
                  {IF ph._id = pharmacy_id
                   THEN [ph EXCEPT !.inventory =
                            updated_inventory(@, medication_name, price, in_stock)]
                   ELSE ph : ph \in pharmacies}
       ELSE UNCHANGED pharmacies
    /\ UNCHANGED <<users, patients, guardians, medications, medication_logs,
                   symptoms, guardian_links, nextId, now, calls, session>>

\* re.search(query, name, re.IGNORECASE) for a query without regex
\* metacharacters: the query occurs in the name, case ignored
regex_i(name, query) ==
    \E i \in 1..(Len(name) - Len(query) + 1) :
       SubSeq(lower(name), i, i + Len(query) - 1) = lower(query)

\* the find of search_pharmacies_by_medication: the two conditions on the
\* fields of the inventory array are each met by some item of the array
search_pharmacies_by_medication(medication_name) ==
    IF medication_name = <<>> THEN {}
    ELSE {ph \in pharmacies :
            /\ \E i \in 1..Len(ph.inventory) :
                  regex_i(ph.inventory[i].medication_name,
                          strip_seq(medication_name))
            /\ \E i \in 1..Len(ph.inventory) : ph.inventory[i].in_stock}

----------------------------------------------------------------------------
(* Medications *)

medication_data(id, patient_id, med_name, dosage, frequency, times) ==
    [_id |-> id, patient_id |-> patient_id, medication_name |-> strip(med_name),
     dosage |-> strip(dosage), frequency |-> strip(frequency), times |-> times,
     notes |-> "", side_effects |-> "", storage |-> "", refill_date |-> None,
     is_active |-> TRUE]

\* medications inserted so far
MedsAdded == nextId - 1 - Cardinality(users) - Cardinality(patients)

\* the validation and the find_one of add_medication: the error it returns
\* with, or None (an empty times list is falsy, so the first test takes it)
add_medication_check(patient_id, med_name, dosage, frequency, times) ==
    IF ~Truthy(patient_id) \/ med_name = "" \/ dosage = "" \/ frequency = ""
       \/ times = <<>>
    THEN "All required fields must be provided"
    ELSE IF \E i \in 1..Len(times) : ~strptime_HM(times[i])
    THEN "Invalid time format"
    ELSE IF ~\E q \in patients : q._id = patient_id
    THEN "Patient not found"
    ELSE None

add_medication_result(patient_id, med_name, dosage, frequency, times) ==
    LET e == add_medication_check(patient_id, med_name, dosage, frequency, times)
    IN IF e # None THEN Err(e) ELSE Ok(nextId)

AddMedication(patient_id, med_name, dosage, frequency, times) ==
    /\ MedsAdded < MaxMeds
    /\ IF add_medication_result(patient_id, med_name, dosage, frequency, times).ok
       THEN /\ medications' = medications \cup
                 {medication_data(nextId, patient_id, med_name, dosage,
                                  frequency, times)}
            /\ nextId' = nextId + 1
       ELSE UNCHANGED <<medications, nextId>>
    /\ UNCHANGED <<users, patients, guardians, pharmacies, medication_logs,
                   symptoms, guardian_links, now, calls, session>>

\* delete_one({"_id": medication_id}) and the test of deleted_count
delete_medication_result(medication_id) ==
    IF \E m \in medications : m._id = medication_id
    THEN Ok(0) ELSE Err("Medication not found")

DeleteMedicationAndLogs(medication_id) ==
    /\ medications' = {m \in medications : m._id # medication_id}
    /\ medication_logs' = {l \in medication_logs : l.medication_id # medication_id}
    /\ UNCHANGED <<users, patients, guardians, pharmacies,
                   symptoms, guardian_links, nextId, now, calls, session>>

DeleteMedication(medication_id) ==
    /\ medications' = {m \in medications : m._id # medication_id}
    /\ UNCHANGED <<users, patients, guardians, pharmacies, medication_logs,
                   symptoms, guardian_links, nextId, now, calls, session>>

\* update_one({"_id": medication_id}, {"$set": {"is_active": False, ...}}):
\* the new deactivated_at makes every matched document a modified one
deactivate_medication_result(medication_id) ==
    IF \E m \in medications : m._id = medication_id
    THEN Ok(0) ELSE Err("Medication not found")

DeactivateMedication(medication_id) ==
    /\ medications' = {IF m._id = medication_id
                       THEN [m EXCEPT !.is_active = FALSE] ELSE m
                       : m \in medications}
    /\ UNCHANGED <<users, patients, guardians, pharmacies, medication_logs,
                   symptoms, guardian_links, nextId, now, calls, session>>

\* update_medication(medication_id, **updates): the keyword arguments as a
\* record; None values are dropped and the rest is $set on the document
non_null(updates) ==
    [k \in {f \in DOMAIN updates : updates[f] # NoneArg} |-> updates[k][1]]

\* {"$set": update_data} on a document
set_fields(doc, update_data) ==
    [k \in DOMAIN doc \cup DOMAIN update_data |->
        IF k \in DOMAIN update_data THEN update_data[k] ELSE doc[k]]

update_data_unstamped(updates) == non_null(updates)

\* update_data["updated_at"] = datetime.utcnow()
update_data(updates) == set_fields(non_null(updates), [updated_at |-> now])

\* the new updated_at makes every matched document a modified one
update_medication_result(medication_id, updates) ==
    IF ~Truthy(medication_id) THEN Err("Medication ID is required")
    ELSE IF DOMAIN non_null(updates) = {} THEN Err("No valid updates provided")
    ELSE IF \E m \in medications : m._id = medication_id THEN Ok(0)
    ELSE Err("Medication not found or no changes made")

UpdateMedication(medication_id, updates) ==
    /\ IF update_medication_result(medication_id, updates).ok
       THEN medications' = {IF m._id = medication_id
                            THEN set_fields(m, update_data(updates)) ELSE m
                            : m \in medications}
       ELSE UNCHANGED medications
    /\ UNCHANGED <<users, patients, guardians, pharmacies, medication_logs,
                   symptoms, guardian_links, nextId, now, calls, session>>

----------------------------------------------------------------------------
(* authenticate_user *)

\* create_user with keyword arguments: in user_data **kwargs comes after
\* is_active, so a keyword of that name replaces the True
user_data_kwargs(id, email, password, role, salt, kwargs) ==
    set_fields(user_data(id, email, password, role, salt), kwargs)

\* create_user(email, password, role, **kwargs) when no other call runs
\* during it
CreateUserKwargs(email, password, role, salt, kwargs) ==
    /\ IF create_user_result(email, password, role, salt).ok
       THEN /\ nextId <= MaxIds
            /\ users' = users \cup {user_data_kwargs(nextId, email, password,
                                                     role, salt, kwargs)}
            /\ nextId' = nextId + 1
       ELSE UNCHANGED <<users, nextId>>
    /\ UNCHANGED <<patients, guardians, pharmacies, medications,
                   medication_logs, symptoms, guardian_links, now, calls,
                   session>>

any_user(email) == {u \in users : u.email = email}

\* users.find_one({"email": email, "is_active": True})
active_user(email) == {u \in users : u.email = email /\ u.is_active}

\* authenticate_user: Some(user) or NoneArg.  The _id is returned as the
\* string of the ObjectId, which names the ObjectId one to one.
authenticate_user(email, password) ==
    IF email = "" \/ password = "" THEN NoneArg
    ELSE IF \E user \in active_user(email) : checkpw(password, user.password)
    THEN LET user == first_of(active_user(email))
         IN Some([user_id |-> user._id, role |-> user.role,
                  email |-> user.email])
    ELSE NoneArg

----------------------------------------------------------------------------
(* Medication logs *)

AnyMedication(m, medication_id, patient_id) == m._id = medication_id

\* the filter of the find_one of log_medication_taken
OwnActiveMedication(m, medication_id, patient_id) ==
    /\ m._id = medication_id
    /\ m.patient_id = patient_id
    /\ m.is_active

log_data(id, patient_id, medication_id, taken_time) ==
    [_id |-> id, patient_id |-> patient_id, medication_id |-> medication_id,
     date |-> isoformat(date(taken_time)), status |-> "taken"]

\* the _id insert_one gives a new log: nothing reads the ids of logs, and
\* logs are never deleted, so the ordinal of the log in its collection
\* serves as its id
next_log_id == Cardinality(medication_logs) + 1

log_medication_taken_result(patient_id, medication_id) ==
    IF ~Truthy(patient_id) \/ ~Truthy(medication_id)
    THEN Err("Patient ID and medication ID are required")
    ELSE IF ~\E m \in medications :
                OwnActiveMedication(m, medication_id, patient_id)
    THEN Err("Medication not found or not active")
    ELSE Ok(next_log_id)

\* a log_medication_taken that keeps one log per medication and date
LogMedicationTakenOncePerDay(patient_id, medication_id, taken_at) ==
    /\ Cardinality(medication_logs) < MaxLogs
    /\ IF log_medication_taken_result(patient_id, medication_id).ok
       THEN LET taken_time == IF Truthy(taken_at) THEN taken_at ELSE now
                l == log_data(next_log_id, patient_id, medication_id, taken_time)
            IN medication_logs' =
                  {k \in medication_logs :
                      k.medication_id # medication_id \/ k.date # l.date}
                  \cup {l}
       ELSE UNCHANGED medication_logs
    /\ UNCHANGED <<users, patients, guardians, pharmacies, medications,
                   symptoms, guardian_links, nextId, now, calls, session>>

\* taken_at is 0 when the caller leaves it out
LogMedicationTaken(patient_id, medication_id, taken_at) ==
    /\ Cardinality(medication_logs) < MaxLogs
    /\ IF log_medication_taken_result(patient_id, medication_id).ok
       THEN LET taken_time == IF Truthy(taken_at) THEN taken_at ELSE now IN
            /\ medication_logs' = medication_logs \cup
                  {log_data(next_log_id, patient_id, medication_id, taken_time)}
       ELSE UNCHANGED medication_logs
    /\ UNCHANGED <<users, patients, guardians, pharmacies, medications,
                   symptoms, guardian_links, nextId, now, calls, session>>

----------------------------------------------------------------------------
(* Reads: the schedule of today and the compliance *)

RECURSIVE InIdOrder(_)
\* the documents of a find() in storage order, which is insertion order
InIdOrder(docs) ==
    IF docs = {} THEN <<>>
    ELSE LET first == CHOOSE d \in docs : \A e \in docs : d._id <= e._id
         IN <<first>> \o InIdOrder(docs \ {first})

get_patient_medications_all(meds, patient_id) ==
    InIdOrder({m \in meds : m.patient_id = patient_id})

\* get_patient_medications: the active medications of the patient
get_patient_medications(meds, patient_id) ==
    InIdOrder({m \in meds : m.patient_id = patient_id /\ m.is_active})

today_logs_any_date(logs, t, patient_id) ==
    {l \in logs : l.patient_id = patient_id}

\* medication_logs.find({"patient_id": ..., "date": today})
today_logs(logs, t, patient_id) ==
    {l \in logs : l.patient_id = patient_id /\ l.date = isoformat(date(t))}

schedule_item(med, time, taken_med_ids) ==
    [medication_id |-> med._id, medication_name |-> med.medication_name,
     dosage |-> med.dosage, time |-> time,
     taken |-> med._id \in taken_med_ids,
     notes |-> med.notes, frequency |-> med.frequency]

RECURSIVE expand_schedule(_, _)
\* the two nested loops: one item per medication and entry of its times
expand_schedule(meds, taken_med_ids) ==
    IF meds = <<>> THEN <<>>
    ELSE [i \in 1..Len(Head(meds).times) |->
             schedule_item(Head(meds), Head(meds).times[i], taken_med_ids)]
         \o expand_schedule(Tail(meds), taken_med_ids)

\* where a stable sort puts x into the sorted sequence s: after every item
\* whose time is not greater
insert_by_time(s, x) ==
    LET k == Cardinality({i \in 1..Len(s) : ~StrLess(x.time, s[i].time)})
    IN SubSeq(s, 1, k) \o <<x>> \o SubSeq(s, k + 1, Len(s))

unsorted(s) == s

RECURSIVE sort_by_time(_)
\* list.sort(key=lambda x: x['time']): stable, ascending
sort_by_time(s) ==
    IF s = <<>> THEN <<>>
    ELSE insert_by_time(sort_by_time(SubSeq(s, 1, Len(s) - 1)), s[Len(s)])

get_today_medications(meds, logs, t, patient_id) ==
    LET medications_ == get_patient_medications(meds, patient_id)
        taken_med_ids == {l.medication_id : l \in today_logs(logs, t, patient_id)}
    IN IF medications_ = <<>> THEN <<>>
       ELSE sort_by_time(expand_schedule(medications_, taken_med_ids))

\* round(taken / expected * 100, 1) in tenths of a percent.  Python rounds
\* the double to the nearest tenth, ties to even; on the quotients of this
\* model (expected never 2000 or 4000) the double is the exact quotient's
\* nearest neighbour, so the rounding is that of the exact quotient.
round1(taken, expected) ==
    LET q == (taken * 1000) \div expected
        r == (taken * 1000) % expected
    IN IF 2 * r > expected THEN q + 1
       ELSE IF 2 * r = expected THEN q + (q % 2)
       ELSE q

start_date_one_early(end_date, days) == end_date - days

\* start_date = end_date - timedelta(days=days-1)
start_date(end_date, days) == end_date - (days - 1)

RECURSIVE expected_doses(_, _)
\* the loop over the medications: daily_doses * days summed up
expected_doses(meds, days) ==
    IF meds = <<>> THEN 0
    ELSE Len(Head(meds).times) * days + expected_doses(Tail(meds), days)

days_below_range(days) == days < MinDays

\* if days < 1 or days > 365
days_out_of_range(days) == days < MinDays \/ days > MaxDays

\* get_medication_compliance; compliance_percentage is in tenths of a percent
get_medication_compliance(meds, logs, t, patient_id, days) ==
    IF days_out_of_range(days)
    THEN [error |-> "Days must be between 1 and 365"]
    ELSE LET end_date == date(t)
             from == isoformat(start_date(end_date, days))
             to == isoformat(end_date)
             logs_ == {l \in logs : /\ l.patient_id = patient_id
                                    /\ IsoLeq(from, l.date)
                                    /\ IsoLeq(l.date, to)}
             medications_ == get_patient_medications(meds, patient_id)
         IN IF medications_ = <<>>
            THEN [compliance_percentage |-> 0, taken_doses |-> 0,
                  expected_doses |-> 0,
                  message |-> "No active medications found"]
            ELSE LET expected == expected_doses(medications_, days)
                     taken == Cardinality(logs_)
                 IN [compliance_percentage |->
                        IF expected > 0 THEN round1(taken, expected) ELSE 0,
                     taken_doses |-> taken,
                     expected_doses |-> expected,
                     period_days |-> days]

----------------------------------------------------------------------------
(* Symptoms *)

\* the fields log_symptom sets
symptom_data(patient_id, today, mood, energy_level, pain_level, side_effects, notes, t) ==
    [patient_id |-> patient_id, date |-> today, mood |-> mood,
     energy_level |-> energy_level, pain_level |-> pain_level,
     side_effects |-> IF side_effects = NoneArg THEN <<>> ELSE side_effects[1],
     notes |-> strip(notes), logged_at |-> t]

\* the validation and the find_one of log_symptom: the error it returns
\* with, or None
log_symptom_check(patient_id, mood, energy_level, pain_level) ==
    IF ~Truthy(patient_id) THEN "Patient ID is required"
    ELSE IF \E val \in {mood, energy_level, pain_level} :
               val < MinScale \/ val > MaxScale
    THEN "Mood, energy level, and pain level must be integers between 1 and 10"
    ELSE IF ~\E q \in patients : q._id = patient_id
    THEN "Patient not found"
    ELSE None

log_symptom_result(patient_id, mood, energy_level, pain_level) ==
    LET e == log_symptom_check(patient_id, mood, energy_level, pain_level)
    IN IF e # None THEN Err(e) ELSE Ok(0)

SymptomMatchNone(s, patient_id, today) == FALSE

\* the filter of the update_one of log_symptom
SymptomMatch(s, patient_id, today) ==
    s.patient_id = patient_id /\ s.date = today

\* log_symptom: update_one(filter, {"$set": symptom_data}, upsert=True) sets
\* the fields on the first document the filter matches, and inserts a new
\* document when it matches none
LogSymptom(patient_id, mood, energy_level, pain_level, side_effects, notes) ==
    /\ IF log_symptom_result(patient_id, mood, energy_level, pain_level).ok
       THEN LET today == isoformat(date(now))
                data == symptom_data(patient_id, today, mood, energy_level,
                                     pain_level, side_effects, notes, now)
                matched == {s \in symptoms : SymptomMatch(s, patient_id, today)}
            IN IF matched # {}
               THEN LET first == CHOOSE s \in matched :
                                    \A e \in matched : s._id <= e._id
                    IN /\ symptoms' = (symptoms \ {first})
                                         \cup {set_fields(first, data)}
                       /\ UNCHANGED nextId
               ELSE /\ Cardinality(symptoms) < MaxSymptoms
                    /\ symptoms' = symptoms
                                      \cup {set_fields([_id |-> nextId], data)}
                    /\ nextId' = nextId + 1
       ELSE UNCHANGED <<symptoms, nextId>>
    /\ UNCHANGED <<users, patients, guardians, pharmacies, medications,
                   medication_logs, guardian_links, now, calls, session>>

\* log_symptom with the two halves of its upsert apart: the server first
\* looks for a document that matches the filter and then writes.  The
\* symptoms index on (patient_id, date) is not unique, so nothing makes the
\* two halves of one upsert exclude those of another.  This half validates,
\* builds symptom_data and finds the document to update (target 0: none).
SymptomFind(p, patient_id, mood, energy_level, pain_level, side_effects, notes) ==
    /\ calls[p].pc = "idle"
    /\ IF log_symptom_result(patient_id, mood, energy_level, pain_level).ok
       THEN LET today == isoformat(date(now))
                matched == {s \in symptoms : SymptomMatch(s, patient_id, today)}
            IN calls' = [calls EXCEPT ![p] =
                  [pc |-> "symptom_write",
                   data |-> symptom_data(patient_id, today, mood, energy_level,
                                         pain_level, side_effects, notes, now),
                   target |-> IF matched = {} THEN 0
                              ELSE (CHOOSE s \in matched :
                                      \A e \in matched : s._id <= e._id)._id]]
       ELSE UNCHANGED calls
    /\ UNCHANGED <<store, nextId, now, session>>

\* the second half of the upsert: $set on the document found, or the insert
\* of a new document when none was found
SymptomWrite(p) ==
    /\ calls[p].pc = "symptom_write"
    /\ IF calls[p].target # 0
       THEN /\ symptoms' = {IF s._id = calls[p].target
                            THEN set_fields(s, calls[p].data) ELSE s
                            : s \in symptoms}
            /\ UNCHANGED nextId
       ELSE /\ Cardinality(symptoms) < MaxSymptoms
            /\ symptoms' = symptoms
                  \cup {set_fields([_id |-> nextId], calls[p].data)}
            /\ nextId' = nextId + 1
    /\ calls' = [calls EXCEPT ![p] = idle]
    /\ UNCHANGED <<users, patients, guardians, pharmacies, medications,
                   medication_logs, guardian_links, now, session>>

----------------------------------------------------------------------------
(* HTTP routes (src/app.py): the session of a client, login and logout,    *)
(* and the routes that change medications, logs, symptoms and links.  A    *)
(* route returns its HTTP status.                                          *)

\* 'user_id' in session
has_user(c) == "user_id" \in DOMAIN session[c]

unguarded(c, role) == FALSE

\* the first test of a route for a role:
\* 'user_id' not in session or session['role'] != role
unauthorized(c, role) == ~has_user(c) \/ session[c].role # role

\* login, POST: the session gets the keys of the authenticated user; without
\* one it is left as it is
Login(c, email, password) ==
    /\ IF authenticate_user(email, password) # NoneArg
       THEN session' = [session EXCEPT ![c] =
                           set_fields(@, authenticate_user(email, password)[1])]
       ELSE UNCHANGED session
    /\ UNCHANGED <<store, nextId, now, calls>>

\* a logout that drops the email and keeps the other keys
LogoutPopEmail(c) ==
    /\ session' = [session EXCEPT ![c] =
                      [k \in DOMAIN session[c] \ {"email"} |-> session[c][k]]]
    /\ UNCHANGED <<store, nextId, now, calls>>

\* logout: session.clear()
Logout(c) ==
    /\ session' = [session EXCEPT ![c] = no_session]
    /\ UNCHANGED <<store, nextId, now, calls>>

\* get_patient_by_user_id: the documents find_one chooses the first of
get_patient_by_user_id(user_id) == {q \in patients : q.user_id = user_id}

any_medication(medication_id, patient_id) ==
    {m \in medications : m._id = medication_id}

\* medications.find_one({"_id": medication_id, "patient_id": patient['_id']})
own_medication(medication_id, patient_id) ==
    {m \in medications : m._id = medication_id /\ m.patient_id = patient_id}

\* the patient routes up to the call of the database manager: the status
\* they return with before it, or 0
patient_route_check(c, medication_id) ==
    IF unauthorized(c, "patient") THEN 401
    ELSE IF get_patient_by_user_id(session[c].user_id) = {} THEN 404
    ELSE IF own_medication(medication_id,
               first_of(get_patient_by_user_id(session[c].user_id))._id) = {}
    THEN 404
    ELSE 0

\* not all([data.get('medication_name'), data.get('dosage'), data.get('frequency')])
required_missing(data) ==
    data.medication_name = "" \/ data.dosage = "" \/ data.frequency = ""

\* the keyword arguments the PUT route passes to update_medication
put_updates(data) ==
    [med_name |-> Some(data.medication_name), dosage |-> Some(data.dosage),
     frequency |-> Some(data.frequency), times |-> Some(data.times),
     notes |-> Some(data.notes), side_effects |-> Some(""),
     storage |-> Some(""), refill_date |-> NoneArg]

\* PUT /api/medications/<medication_id>
put_medication_status(c, medication_id, data) ==
    IF unauthorized(c, "patient") THEN 401
    ELSE IF get_patient_by_user_id(session[c].user_id) = {} THEN 404
    ELSE IF required_missing(data) THEN 400
    ELSE IF patient_route_check(c, medication_id) # 0 THEN 404
    ELSE IF update_medication_result(medication_id, put_updates(data)).ok
    THEN 200 ELSE 500

RoutePutMedication(c, medication_id, data) ==
    IF put_medication_status(c, medication_id, data) = 200
    THEN UpdateMedication(medication_id, put_updates(data))
    ELSE UNCHANGED vars

\* DELETE /api/medications/<medication_id>
delete_medication_status(c, medication_id) ==
    IF patient_route_check(c, medication_id) # 0
    THEN patient_route_check(c, medication_id)
    ELSE IF delete_medication_result(medication_id).ok THEN 200 ELSE 500

RouteDeleteMedication(c, medication_id) ==
    IF delete_medication_status(c, medication_id) = 200
    THEN DeleteMedication(medication_id)
    ELSE UNCHANGED vars

\* POST /take_medication: the medication found may be inactive, and then
\* log_medication_taken refuses it
take_medication_status(c, medication_id) ==
    IF patient_route_check(c, medication_id) # 0
    THEN patient_route_check(c, medication_id)
    ELSE IF log_medication_taken_result(
               first_of(get_patient_by_user_id(session[c].user_id))._id,
               medication_id).ok
    THEN 200 ELSE 500

RouteTakeMedication(c, medication_id) ==
    IF take_medication_status(c, medication_id) = 200
    THEN LogMedicationTaken(
            first_of(get_patient_by_user_id(session[c].user_id))._id,
            medication_id, 0)
    ELSE UNCHANGED vars

\* POST /add_medication
add_medication_status(c, data) ==
    IF unauthorized(c, "patient") THEN 401
    ELSE IF get_patient_by_user_id(session[c].user_id) = {} THEN 404
    ELSE IF required_missing(data) THEN 400
    ELSE IF add_medication_result(
               first_of(get_patient_by_user_id(session[c].user_id))._id,
               data.medication_name, data.dosage, data.frequency, data.times).ok
    THEN 200 ELSE 500

RouteAddMedication(c, data) ==
    IF add_medication_status(c, data) = 200
    THEN AddMedication(first_of(get_patient_by_user_id(session[c].user_id))._id,
                       data.medication_name, data.dosage, data.frequency,
                       data.times)
    ELSE UNCHANGED vars

\* POST /log_symptoms
log_symptoms_status(c, mood, energy_level, pain_level) ==
    IF unauthorized(c, "patient") THEN 401
    ELSE IF get_patient_by_user_id(session[c].user_id) = {} THEN 404
    ELSE IF \E val \in {mood, energy_level, pain_level} : val < 1 \/ val > 10
    THEN 400
    ELSE IF log_symptom_result(
               first_of(get_patient_by_user_id(session[c].user_id))._id,
               mood, energy_level, pain_level).ok
    THEN 200 ELSE 500

RouteLogSymptoms(c, mood, energy_level, pain_level) ==
    IF log_symptoms_status(c, mood, energy_level, pain_level) = 200
    THEN LogSymptom(first_of(get_patient_by_user_id(session[c].user_id))._id,
                    mood, energy_level, pain_level, <<>>, "")
    ELSE UNCHANGED vars

\* POST /api/guardian_link up to the call of link_guardian_to_patient: the
\* status it returns with before it, or 0
guardian_link_check(c, guardian_code) ==
    IF unauthorized(c, "guardian") THEN 401
    ELSE IF strip_seq(guardian_code) = <<>> THEN 400
    ELSE 0

\* the worker p serves the request and goes into link_guardian_to_patient
RouteGuardianLink(c, p, guardian_code) ==
    IF guardian_link_check(c, guardian_code) = 0
    THEN LinkCheck(p, strip_seq(guardian_code), session[c].user_id)
    ELSE UNCHANGED vars

\* /dashboard and /medications: redirect to the login page, or the page
dashboard_status(c) == IF ~has_user(c) THEN 302 ELSE 200

medications_status(c) == IF unauthorized(c, "patient") THEN 302 ELSE 200

----------------------------------------------------------------------------
(* Account creation: create_user calls of two workers interleave, and      *)
(* pharmacy accounts are created.                                          *)
Next ==
    \/ \E p \in Procs, email \in Emails, password \in Passwords, role \in Roles :
          CreateUserCheck(p, email, password, role)
    \/ \E p \in Procs : CreateUserInsert(p)
    \/ \E email \in Emails, password \in Passwords, name \in Names, phone \in Phones :
          CreatePharmacy(email, password, name, "1 Main St", phone, "L-1")

Spec == Init /\ [][Next]_vars

(* Profile creation: users register, and the workers W create patient and *)
(* guardian profiles; the calls of different workers interleave between    *)
(* their database reads and writes.                                        *)
ProfileNext(W, ages, genders) ==
    \/ \E email \in Emails, role \in Roles : CreateUser(email, "pw", role)
    \/ \E p \in W, user_id \in UserIds, name \in Names, age \in ages,
          gender \in genders : PatientCheck(p, user_id, name, age, gender)
    \/ \E p \in W : GenerateCode(p)
    \/ \E p \in W : PatientInsert(p)
    \/ \E p \in W, user_id \in UserIds, name \in Names :
          GuardianCheck(p, user_id, name, "555", "parent")
    \/ \E p \in W : GuardianInsert(p)

\* two workers, whose calls interleave
NextProfile == ProfileNext(Procs, EdgeAges, {"F"})

SpecProfile == Init /\ [][NextProfile]_vars

\* one worker: the calls follow one another
NextProfileSeq == ProfileNext({"w1"}, Ages, Genders)

SpecProfileSeq == Init /\ [][NextProfileSeq]_vars

----------------------------------------------------------------------------
(* Medication management and adherence: two patients have registered (a    *)
(* state SpecProfile reaches), and medications are added, changed, logged  *)
(* as taken (now, or with a taken_at of the day before), deactivated and   *)
(* deleted.                                                                *)

registered_user(id, email) == user_data(id, email, "pw", "patient", "s1")

InitRegistered ==
    /\ users = {registered_user(1, "a@x.org"), registered_user(2, "b@x.org")}
    /\ patients = {patient_data(3, 1, "Ann", 150, "F", str(218000)),
                   patient_data(4, 2, "Ann", 150, "F", str(999999))}
    /\ guardians = {}
    /\ pharmacies = {}
    /\ medications = {}
    /\ medication_logs = {}
    /\ symptoms = {}
    /\ guardian_links = {}
    /\ nextId = 5
    /\ now = BaseTime
    /\ calls = [p \in Procs |-> idle]
    /\ session = [c \in Clients |-> no_session]

\* the ids a caller may pass for a patient or a medication: 0 is a missing id
PatientIds == {0} \cup {q._id : q \in patients}

MedIds == {0} \cup {m._id : m \in medications} \cup {nextId}

\* taken_at: left out (0 stands for None), or the same time yesterday
TakenAts == {0, now - SecondsPerDay}

UpdateInputs == {[times |-> Some(<<>>), notes |-> NoneArg],
                 [notes |-> NoneArg]}

NextMed ==
    \/ \E patient_id \in PatientIds \cup {nextId}, med_name \in MedNames,
          times \in TimesInputs :
          AddMedication(patient_id, med_name, "5mg", "daily", times)
    \/ \E medication_id \in MedIds, updates \in UpdateInputs :
          UpdateMedication(medication_id, updates)
    \/ \E medication_id \in MedIds : DeleteMedication(medication_id)
    \/ \E medication_id \in MedIds : DeactivateMedication(medication_id)
    \/ \E patient_id \in PatientIds, medication_id \in MedIds, taken_at \in TakenAts :
          LogMedicationTaken(patient_id, medication_id, taken_at)

SpecMed == InitRegistered /\ [][NextMed]_vars

(* Updates: the patient of user 1 adds medications and patches them with   *)
(* keyword arguments while the clock advances.                             *)

\* keyword arguments of update_medication: a dosage alone, times and notes
\* with the dosage passed as None, the med_name key, and calls whose
\* arguments are all None or absent
UpdateInputsWide ==
    {[dosage |-> Some("10mg")],
     [dosage |-> NoneArg, times |-> Some(<<t0800>>), notes |-> Some("n")],
     [med_name |-> Some("C")],
     [dosage |-> NoneArg, notes |-> NoneArg],
     [x \in {} |-> NoneArg]}

NextUpdate ==
    \/ \E q \in patients :
          /\ q.user_id = 1
          /\ AddMedication(q._id, " B ", "5mg", "daily", <<t2000, t0800>>)
    \/ \E medication_id \in MedIds, updates \in UpdateInputsWide :
          UpdateMedication(medication_id, updates)
    \/ Tick

SpecUpdate == InitRegistered /\ [][NextUpdate]_vars

(* Authentication: users are created, some of them inactive, and log in.   *)

\* the keyword arguments of create_user: the name the register route
\* passes, and an is_active that makes the user inactive
KwargsInputs == {[name |-> "Ann"], [name |-> "Ann", is_active |-> FALSE]}

\* the passwords users register and log in with
AuthPasswords == {"pw", "pw2", ""}

\* the emails users log in with: those of Emails and one nobody has
AuthEmails == Emails \cup {"c@x.org"}

NextAuth ==
    \E email \in Emails, password \in AuthPasswords, role \in Roles,
       salt \in Salts, kwargs \in KwargsInputs :
       CreateUserKwargs(email, password, role, salt, kwargs)

SpecAuth == Init /\ [][NextAuth]_vars

(* Doses: the patients add medications taken once or twice a day, log      *)
(* doses, and deactivate and delete medications.                           *)

TimesOnceOrTwice == {<<t0800>>, <<t2000, t0800>>}

NextDoses ==
    \/ \E patient_id \in PatientIds \ {0}, times \in TimesOnceOrTwice :
          AddMedication(patient_id, " B ", "5mg", "daily", times)
    \/ \E medication_id \in MedIds : DeleteMedication(medication_id)
    \/ \E medication_id \in MedIds : DeactivateMedication(medication_id)
    \/ \E patient_id \in PatientIds, medication_id \in MedIds, taken_at \in TakenAts :
          LogMedicationTaken(patient_id, medication_id, taken_at)

SpecDoses == InitRegistered /\ [][NextDoses]_vars

(* Medication routes: two patients and a guardian have registered, the     *)
(* patients have their profiles; clients log in and out and send requests  *)
(* to the medication routes.                                               *)

InitRoutes ==
    /\ users = {registered_user(1, "a@x.org"), registered_user(2, "b@x.org"),
                user_data(3, "g@x.org", "pw", "guardian", "s1")}
    /\ patients = {patient_data(4, 1, "Ann", 150, "F", str(218000)),
                   patient_data(5, 2, "Ann", 150, "F", str(999999))}
    /\ guardians = {}
    /\ pharmacies = {}
    /\ medications = {}
    /\ medication_logs = {}
    /\ symptoms = {}
    /\ guardian_links = {}
    /\ nextId = 6
    /\ now = BaseTime
    /\ calls = [p \in Procs |-> idle]
    /\ session = [c \in Clients |-> no_session]

\* the emails and passwords of the login form: the three users, and a wrong
\* password
LoginEmails == {"a@x.org", "b@x.org", "g@x.org"}

LoginPasswords == {"pw", "pw2"}

\* the JSON of the add_medication request
AddData ==
    {[medication_name |-> " B ", dosage |-> "5mg", frequency |-> "daily",
      times |-> <<t2000, t0800>>, notes |-> ""]}

\* the JSON of PUT requests: one that changes the four fields, and one
\* without a name
PutData ==
    {[medication_name |-> "C", dosage |-> "10mg", frequency |-> "weekly",
      times |-> <<t0800>>, notes |-> "n"],
     [medication_name |-> "", dosage |-> "10mg", frequency |-> "weekly",
      times |-> <<t0800>>, notes |-> "n"]}

\* the client whose requests the medication routes serve here
RouteClients == {"c1"}

NextRoutes ==
    \/ \E c \in RouteClients, email \in LoginEmails, password \in LoginPasswords :
          Login(c, email, password)
    \/ \E c \in RouteClients : Logout(c)
    \/ \E c \in RouteClients, data \in AddData : RouteAddMedication(c, data)
    \/ \E c \in RouteClients, medication_id \in MedIds, data \in PutData :
          RoutePutMedication(c, medication_id, data)
    \/ \E c \in RouteClients, medication_id \in MedIds :
          RouteDeleteMedication(c, medication_id)
    \/ \E c \in RouteClients, medication_id \in MedIds :
          RouteTakeMedication(c, medication_id)

SpecRoutes == InitRoutes /\ [][NextRoutes]_vars

(* Sessions: a patient with a profile and a guardian with a profile have   *)
(* registered; two clients log in and out and send requests to the         *)
(* protected routes.  The ids of links count towards the ids that bound    *)
(* the medications added.                                                  *)

InitSession ==
    /\ users = {registered_user(1, "a@x.org"),
                user_data(2, "g@x.org", "pw", "guardian", "s1")}
    /\ patients = {patient_data(3, 1, "Ann", 150, "F", str(218000))}
    /\ guardians = {guardian_data(4, 2, "Ann", "555", "parent")}
    /\ pharmacies = {}
    /\ medications = {}
    /\ medication_logs = {}
    /\ symptoms = {}
    /\ guardian_links = {}
    /\ nextId = 5
    /\ now = BaseTime
    /\ calls = [p \in Procs |-> idle]
    /\ session = [c \in Clients |-> no_session]

SessionEmails == {"a@x.org", "g@x.org"}

\* the guardian codes of the link form: the patient's, and a blank one
LinkCodes == {str(218000), <<" ">>}

\* the scale values of the symptoms form: in range, and out of range
ScaleInputs == {5, 0}

NextSession ==
    \/ \E c \in Clients, email \in SessionEmails, password \in LoginPasswords :
          Login(c, email, password)
    \/ \E c \in Clients : Logout(c)
    \/ \E c \in Clients, data \in AddData : RouteAddMedication(c, data)
    \/ \E c \in Clients, medication_id \in MedIds, data \in PutData :
          RoutePutMedication(c, medication_id, data)
    \/ \E c \in Clients, medication_id \in MedIds :
          RouteDeleteMedication(c, medication_id)
    \/ \E c \in Clients, medication_id \in MedIds :
          RouteTakeMedication(c, medication_id)
    \/ \E c \in Clients, mood \in ScaleInputs : RouteLogSymptoms(c, mood, 5, 5)
    \/ \E c \in Clients, p \in Procs, guardian_code \in LinkCodes :
          RouteGuardianLink(c, p, guardian_code)
    \/ \E p \in Procs : LinkInsert(p)

SpecSession == InitSession /\ [][NextSession]_vars

(* Symptom tracking: the two registered patients log their symptoms while  *)
(* the clock advances over two calendar dates.                             *)

\* the calls of log_symptom: two with all three values in range, and one
\* out of range for each value
SymptomInputs ==
    {[mood |-> 1, energy_level |-> 2, pain_level |-> 3,
      side_effects |-> NoneArg, notes |-> ""],
     [mood |-> 10, energy_level |-> 9, pain_level |-> 8,
      side_effects |-> Some(<<"nausea">>), notes |-> " B "],
     [mood |-> 0, energy_level |-> 2, pain_level |-> 3,
      side_effects |-> NoneArg, notes |-> ""],
     [mood |-> 1, energy_level |-> 11, pain_level |-> 3,
      side_effects |-> NoneArg, notes |-> ""],
     [mood |-> 1, energy_level |-> 2, pain_level |-> 0,
      side_effects |-> NoneArg, notes |-> ""]}

NextSymptom ==
    \/ \E patient_id \in PatientIds \cup {nextId}, c \in SymptomInputs :
          LogSymptom(patient_id, c.mood, c.energy_level, c.pain_level,
                     c.side_effects, c.notes)
    \/ Tick

SpecSymptom == InitRegistered /\ [][NextSymptom]_vars

(* Symptom tracking by two workers: the log_symptom calls of the workers   *)
(* interleave between the two halves of their upserts.                     *)
NextSymptomRace ==
    \/ \E p \in Procs, patient_id \in PatientIds, c \in SymptomInputs :
          SymptomFind(p, patient_id, c.mood, c.energy_level, c.pain_level,
                      c.side_effects, c.notes)
    \/ \E p \in Procs : SymptomWrite(p)
    \/ Tick

SpecSymptomRace == InitRegistered /\ [][NextSymptomRace]_vars

(* Guardian linking: two patients and two guardians have registered and    *)
(* created their profiles, and two workers link guardians to patients by    *)
(* guardian code.                                                          *)

InitLinkable ==
    /\ users = {registered_user(1, "a@x.org"), registered_user(2, "b@x.org"),
                user_data(5, "g@x.org", "pw", "guardian", "s1"),
                user_data(6, "h@x.org", "pw", "guardian", "s1")}
    /\ patients = {patient_data(3, 1, "Ann", 150, "F", str(218000)),
                   patient_data(4, 2, "Ann", 150, "F", str(999999))}
    /\ guardians = {guardian_data(7, 5, "Ann", "555", "parent"),
                    guardian_data(8, 6, "Ann", "555", "parent")}
    /\ pharmacies = {}
    /\ medications = {}
    /\ medication_logs = {}
    /\ symptoms = {}
    /\ guardian_links = {}
    /\ nextId = 9
    /\ now = BaseTime
    /\ calls = [p \in Procs |-> idle]
    /\ session = [c \in Clients |-> no_session]

\* the codes a caller may pass: those of the two patients, one nobody holds,
\* and the empty string
CodeInputs == {str(218000), str(999999), str(100000), <<>>}

\* the user ids a caller may pass: a missing id, a patient user, and the
\* two guardian users
GuardianUserInputs == {0, 1, 5, 6}

NextLink ==
    \/ \E p \in Procs, guardian_code \in CodeInputs,
          guardian_user_id \in GuardianUserInputs :
          LinkCheck(p, guardian_code, guardian_user_id)
    \/ \E p \in Procs : LinkInsert(p)

SpecLink == InitLinkable /\ [][NextLink]_vars

(* Adding medications: the two registered patients add medications, with   *)
(* fields left out, with times lists that are empty, well formed, written  *)
(* with a one-digit hour, or out of range.                                 *)

t800 == <<"8", ":", "0", "0">>

TimesInputsWide == TimesInputs \cup {<<t800>>, <<t2000, t2500>>}

Dosages == {"5mg", "10mg", ""}

Frequencies == {"daily", "weekly", ""}

NextAddMed ==
    \E patient_id \in PatientIds \cup {nextId}, med_name \in MedNames,
       dosage \in Dosages, frequency \in Frequencies, times \in TimesInputsWide :
       AddMedication(patient_id, med_name, dosage, frequency, times)

SpecAddMed == InitRegistered /\ [][NextAddMed]_vars

(* Pharmacy inventory: one pharmacy has registered (a state Spec reaches), *)
(* and items are added to its inventory and updated.                       *)

InitPharmacy ==
    /\ users = {user_data(1, "a@x.org", "pw", "pharmacy", "s1")}
    /\ patients = {}
    /\ guardians = {}
    /\ pharmacies = {pharmacy_data(2, 1, "Ann", "1 Main St", "555", "L-1")}
    /\ medications = {}
    /\ medication_logs = {}
    /\ symptoms = {}
    /\ guardian_links = {}
    /\ nextId = 3
    /\ now = BaseTime
    /\ calls = [p \in Procs |-> idle]
    /\ session = [c \in Clients |-> no_session]

\* the ids a caller may pass for a pharmacy: 0 is a missing id
PharmacyIds == {0, nextId} \cup {ph._id : ph \in pharmacies}

ItemNames == {<<"A", "b">>, <<"a", "b">>, <<"c">>, <<"c", " ">>, <<>>}

Prices == {-1, 0, 5, 7}

\* the names search_pharmacies_by_medication is called with
Queries == {<<"b">>, <<"A">>, <<"C">>, <<"d">>, <<>>}

NextPharmacy ==
    \/ \E pharmacy_id \in PharmacyIds, medication_name \in ItemNames,
          price \in Prices, in_stock \in BOOLEAN :
          AddPharmacyInventory(pharmacy_id, medication_name, price, in_stock)
    \/ Tick

SpecPharmacy == InitPharmacy /\ [][NextPharmacy]_vars

----------------------------------------------------------------------------
(* Claims *)

EmailExists(email) == \E u \in users : u.email = email

UniqueEmails == \A u, v \in users : u.email = v.email => u = v

\* C1: under any interleaving of create_user calls no two stored users share
\* an email and no stored user is changed or removed; a call whose email is
\* already stored returns an error, whether it finds the email at its lookup
\* or only at its insert, and then it stores nothing.
C1_UniqueEmail ==
    /\ [](\A email \in Emails, password \in Passwords, role \in Roles :
             EmailExists(email) =>
                create_user_check(email, password, role) # None)
    /\ [][ /\ UniqueEmails'
           /\ users \subseteq users'
           /\ \A p \in Procs :
                 (CreateUserInsert(p) /\ EmailExists(calls[p].email))
                 => (~insert_user_result(pending_user(p)).ok /\ users' = users)
         ]_vars

\* a worker that found its email free now stands at its insert while another
\* call has stored a user with that email
C1_Witness ==
    \E p \in Procs : /\ calls[p].pc = "user_insert"
                     /\ EmailExists(calls[p].email)

\* C2: at most one patient profile and at most one guardian profile
\* references any user, also when two creation calls for the same user
\* interleave.
C2_OneProfilePerUser ==
    /\ \A q, r \in patients : q.user_id = r.user_id => q = r
    /\ \A g, h \in guardians : g.user_id = h.user_id => g = h

\* the user id is that of a stored user with role patient whom no patient
\* profile references
FreshPatientUser(user_id) ==
    /\ \E u \in users : u._id = user_id /\ u.role = "patient"
    /\ ~\E q \in patients : q.user_id = user_id

\* C3: for a stored patient user without a profile create_patient_profile
\* fails with the invalid-age error exactly when age is outside 0..150 and
\* passes its checks for every age in 0..150; it fails with the
\* user-not-found error when no user with that id and role patient is stored
\* and with the profile-exists error when a patient references the user.
C3_AgeValidation ==
    \A user_id \in UserIds \ {0}, age \in Ages :
       LET e == create_patient_profile_check(user_id, "Ann", age, "F") IN
       /\ FreshPatientUser(user_id) =>
             /\ (e = "Invalid age") <=> (age < 0 \/ age > 150)
             /\ (age >= 0 /\ age <= 150) => e = None
       /\ (age >= 1 /\ age <= 150
           /\ ~\E u \in users : u._id = user_id /\ u.role = "patient")
             => e = "Invalid user or user is not a patient"
       /\ (age >= 1 /\ age <= 150
           /\ (\E u \in users : u._id = user_id /\ u.role = "patient")
           /\ (\E q \in patients : q.user_id = user_id))
             => e = "Patient profile already exists"

C5_CodesUnique ==
    /\ \A q \in patients : SixDigits(q.guardian_code)
    /\ \A q, r \in patients : q.guardian_code = r.guardian_code => q = r

\* a patient is stored and a worker stands at its insert with the code that
\* patient holds
C5_Witness ==
    \E p \in Procs : /\ calls[p].pc = "patient_insert"
                     /\ CodeHeld(calls[p].code)

\* C6: whenever an operation returns an error result, the store is as it was
\* before the call; create_pharmacy, which stores a user and a pharmacy, is
\* among the operations.
C6_ErrorLeavesStore ==
    [][ /\ \A p \in Procs :
              (CreateUserInsert(p) /\ ~insert_user_result(pending_user(p)).ok)
              => store' = store
        /\ \A email \in Emails, password \in Passwords, name \in Names,
              phone \in Phones, salt \in Salts :
              (/\ CreatePharmacy(email, password, name, "1 Main St", phone, "L-1")
               /\ ~create_pharmacy_result(email, password, name, "1 Main St",
                                          phone, "L-1", salt).ok)
              => store' = store
      ]_vars

\* a medication with that id is stored, belongs to the patient and is active
HasOwnActive(patient_id, medication_id) ==
    \E m \in medications : /\ m._id = medication_id
                           /\ m.patient_id = patient_id
                           /\ m.is_active

\* C7: log_medication_taken adds a log only if at the time of the call a
\* medication with that id is stored, belongs to that patient and is active;
\* otherwise it returns an error (the not-found error when both ids are
\* given) and adds no log.  So every log that is added is one of a
\* medication that is stored and active when it is added.
C7_LogOnlyOwnActive ==
    /\ [](\A patient_id \in PatientIds, medication_id \in MedIds :
             LET r == log_medication_taken_result(patient_id, medication_id) IN
             /\ r.ok <=> HasOwnActive(patient_id, medication_id)
             /\ (~r.ok /\ Truthy(patient_id) /\ Truthy(medication_id))
                   => r.error = "Medication not found or not active")
    /\ [][ /\ \A l \in medication_logs' \ medication_logs :
                 HasOwnActive(l.patient_id, l.medication_id)
           /\ medication_logs \subseteq medication_logs'
           /\ Cardinality(medication_logs') <= Cardinality(medication_logs) + 1
         ]_vars

\* a log is stored whose medication has since been deactivated or deleted
C7_Witness ==
    \E l \in medication_logs :
       /\ ~HasOwnActive(l.patient_id, l.medication_id)
       /\ ~log_medication_taken_result(l.patient_id, l.medication_id).ok

\* the rows get_today_medications returns for a patient now
TodayRows(patient_id) ==
    get_today_medications(medications, medication_logs, now, patient_id)

\* C8: get_today_medications returns exactly one row per active medication
\* of the patient and entry of its times list, and the taken flag of a row
\* is true iff a log dated today is stored for the row's medication id,
\* whatever the time of the row.
C8_TodayRows ==
    \A q \in patients :
       LET rows == TodayRows(q._id)
           active == {m \in medications : m.patient_id = q._id /\ m.is_active}
       IN /\ \A i \in 1..Len(rows) :
                /\ \E m \in active : /\ m._id = rows[i].medication_id
                                     /\ \E j \in 1..Len(m.times) :
                                           m.times[j] = rows[i].time
                /\ rows[i].taken <=>
                      \E l \in medication_logs :
                         /\ l.medication_id = rows[i].medication_id
                         /\ l.date = isoformat(date(now))
          /\ \A m \in active : \A j \in 1..Len(m.times) :
                Cardinality({i \in 1..Len(rows) :
                                /\ rows[i].medication_id = m._id
                                /\ rows[i].time = m.times[j]})
                = Cardinality({k \in 1..Len(m.times) : m.times[k] = m.times[j]})

\* a medication with two times and exactly one log dated today: both of its
\* rows are flagged taken
C8_Witness ==
    \E m \in medications :
       /\ m.is_active /\ Len(m.times) = 2
       /\ Cardinality({l \in medication_logs : l.medication_id = m._id}) = 1
       /\ Len(TodayRows(m.patient_id)) = 2
       /\ \A i \in 1..2 : TodayRows(m.patient_id)[i].taken

\* the day number of an ISO date: the inverse of date.isoformat()
fromisoformat(iso) ==
    LET y == iso[1] - (IF iso[2] <= 2 THEN 1 ELSE 0)
        era == y \div 400
        yoe == y - era * 400
        mp == (iso[2] + 9) % 12
        doy == (153 * mp + 2) \div 5 + iso[3] - 1
        doe == yoe * 365 + yoe \div 4 - yoe \div 100 + doy
    IN era * 146097 + doe - 719468

RECURSIVE DosesPerDay(_)
\* the sum of the numbers of times of a set of medications
DosesPerDay(meds) ==
    IF meds = {} THEN 0
    ELSE LET m == CHOOSE x \in meds : TRUE
         IN Len(m.times) + DosesPerDay(meds \ {m})

ActiveOf(patient_id) ==
    {m \in medications : m.patient_id = patient_id /\ m.is_active}

\* the patient's logs whose date lies in [today - (days - 1), today]
LogsInRange(patient_id, days) ==
    {l \in medication_logs :
        /\ l.patient_id = patient_id
        /\ fromisoformat(l.date) >= date(now) - (days - 1)
        /\ fromisoformat(l.date) <= date(now)}

\* the result r (percentage in tenths of a percent) is what the formula of
\* the compliance gives for the patient and the period
FollowsFormula(r, patient_id, days) ==
    LET expected == DosesPerDay(ActiveOf(patient_id)) * days
        taken == Cardinality(LogsInRange(patient_id, days))
        diff == r.compliance_percentage * expected - 1000 * taken
    IN /\ r.expected_doses = expected
       /\ r.taken_doses = taken
       /\ IF expected = 0 THEN r.compliance_percentage = 0
          ELSE 2 * diff <= expected /\ -2 * diff <= expected

\* one medication with two times and seven logs on the last seven days
ExampleMeds == {medication_data(5, 3, "B", "5mg", "daily", <<t0800, t2000>>)}

ExampleLogs == {log_data(6 + k, 3, 5, BaseTime - k * SecondsPerDay) : k \in 0..6}

C9_Example ==
    get_medication_compliance(ExampleMeds, ExampleLogs, BaseTime, 3, 7)
    = [compliance_percentage |-> 500, taken_doses |-> 7,
       expected_doses |-> 14, period_days |-> 7]

\* C9: for every state of a patient and every days in 1..365
\* get_medication_compliance returns as expected_doses the sum over the
\* patient's active medications of times per day x days, as taken_doses the
\* number of the patient's logs dated in [today - (days - 1), today], and as
\* compliance_percentage taken/expected x 100 rounded to one decimal, or 0
\* if expected_doses is 0; one medication with 2 times, days = 7 and 7 logs
\* in range give 14, 7 and 50.0.
C9_ComplianceFormula ==
    /\ C9_Example
    /\ \A q \in patients, days \in DaysInputs :
          (days >= 1 /\ days <= 365) =>
             FollowsFormula(get_medication_compliance(medications,
                               medication_logs, now, q._id, days), q._id, days)

\* C9 as the code has it: the formula holds for a patient with at least one
\* active medication; for a patient with none the result is 0 expected
\* doses, 0 taken doses and 0 percent, whatever logs are in range.
C9_ComplianceWhenActive ==
    /\ C9_Example
    /\ \A q \in patients, days \in DaysInputs :
          (days >= 1 /\ days <= 365) =>
             LET r == get_medication_compliance(medications, medication_logs,
                                                now, q._id, days)
             IN IF ActiveOf(q._id) # {}
                THEN FollowsFormula(r, q._id, days)
                ELSE /\ r.expected_doses = 0
                     /\ r.taken_doses = 0
                     /\ r.compliance_percentage = 0

\* a patient with an active medication of two times and a log dated
\* yesterday: the log counts for days = 2 and not for days = 1
C9_Witness ==
    \E q \in patients :
       /\ get_medication_compliance(medications, medication_logs, now,
                                    q._id, 1).taken_doses = 0
       /\ get_medication_compliance(medications, medication_logs, now,
                                    q._id, 2)
          = [compliance_percentage |-> 250, taken_doses |-> 1,
             expected_doses |-> 4, period_days |-> 2]

\* the symptom records of a patient and a date
SymptomsOf(recs, patient_id, day) ==
    {s \in recs : s.patient_id = patient_id /\ s.date = day}

\* C10: log_symptom is an upsert keyed on (patient, today's date): there is
\* at most one symptom record per patient and date, and a call for a patient
\* and date that has a record leaves exactly one record for them, whose
\* mood, energy level, pain level, side effects and notes are those of the
\* call, and leaves the records of every other patient and date as they are.
C10_Upsert ==
    /\ [](\A s, r \in symptoms :
             (s.patient_id = r.patient_id /\ s.date = r.date) => s = r)
    /\ [][ \A patient_id \in PatientIds, c \in SymptomInputs :
              (/\ LogSymptom(patient_id, c.mood, c.energy_level, c.pain_level,
                             c.side_effects, c.notes)
               /\ log_symptom_result(patient_id, c.mood, c.energy_level,
                                     c.pain_level).ok)
              => LET today == isoformat(date(now)) IN
                 /\ Cardinality(SymptomsOf(symptoms', patient_id, today)) = 1
                 /\ \A s \in SymptomsOf(symptoms', patient_id, today) :
                       /\ s.mood = c.mood
                       /\ s.energy_level = c.energy_level
                       /\ s.pain_level = c.pain_level
                       /\ s.side_effects = (IF c.side_effects = NoneArg
                                            THEN <<>> ELSE c.side_effects[1])
                       /\ s.notes = strip(c.notes)
                 /\ symptoms' \ SymptomsOf(symptoms', patient_id, today)
                    = symptoms \ SymptomsOf(symptoms, patient_id, today)
         ]_vars

\* the record inserted first was written again, on the date it was inserted
\* on, after the record inserted second: a second call of the day has
\* overwritten it with its own values
C10_Witness ==
    \E r, s \in symptoms : /\ r._id < s._id
                           /\ r.date = s.date
                           /\ r.logged_at > s.logged_at
                           /\ r.mood = 10

\* C11: the store enforces uniqueness of (patient_id, date) on symptom
\* records, so that also when two log_symptom calls for one patient and one
\* date interleave there is exactly one record for that patient and date.
C11_UniquePerDate ==
    \A s, r \in symptoms :
       (s.patient_id = r.patient_id /\ s.date = r.date) => s._id = r._id

\* the pair the code and the user resolve to is linked
PairLinked(guardian_code, guardian_user_id) ==
    \E q \in patients, g \in guardians, l \in guardian_links :
       /\ q.guardian_code = guardian_code
       /\ g.user_id = guardian_user_id
       /\ l.patient_id = q._id
       /\ l.guardian_id = g._id

\* C12: there is at most one guardian link per (patient, guardian) pair,
\* also when calls interleave; a call for a pair that is linked already
\* returns the already-linked error, and one that finds the pair linked
\* only at its insert returns an error and adds nothing.
C12_OneLinkPerPair ==
    /\ [](\A l, k \in guardian_links :
             (l.patient_id = k.patient_id /\ l.guardian_id = k.guardian_id)
             => l = k)
    /\ [](\A guardian_code \in CodeInputs, guardian_user_id \in GuardianUserInputs :
             PairLinked(guardian_code, guardian_user_id) =>
                link_guardian_check(guardian_code, guardian_user_id)
                = "Guardian already linked to this patient")
    /\ [][ \A p \in Procs :
              (LinkInsert(p)
               /\ PairLinked(calls[p].guardian_code, calls[p].guardian_user_id))
              => (~insert_link_result(pending_link(p)).ok
                  /\ guardian_links' = guardian_links) ]_vars

\* a worker that found its pair unlinked stands at its insert while another
\* call has linked the pair
C12_Witness ==
    \E p \in Procs :
       /\ calls[p].pc = "link_insert"
       /\ PairLinked(calls[p].guardian_code, calls[p].guardian_user_id)

\* C13: link_guardian_to_patient links only the patient that holds the given
\* code with the guardian profile of the given user: given a code and a user
\* id, it fails with the invalid-code error if no patient holds the code and
\* with the guardian-not-found error if the user has no guardian profile; a
\* failing call leaves guardian_links as it is, and a successful one adds
\* exactly one link, which is active.
C13_LinkResolves ==
    /\ [](\A guardian_code \in CodeInputs \ {<<>>},
             guardian_user_id \in GuardianUserInputs \ {0} :
             LET e == link_guardian_check(guardian_code, guardian_user_id)
                 held == \E q \in patients : q.guardian_code = guardian_code
                 profiled == \E g \in guardians : g.user_id = guardian_user_id
             IN /\ ~held => e = "Invalid guardian code"
                /\ (held /\ ~profiled) => e = "Guardian profile not found"
                /\ (held /\ profiled
                    /\ ~PairLinked(guardian_code, guardian_user_id)) => e = None)
    /\ [][ /\ guardian_links \subseteq guardian_links'
           /\ \A p \in Procs :
                 LinkInsert(p) =>
                    IF insert_link_result(pending_link(p)).ok
                    THEN \E l \in guardian_links' \ guardian_links :
                            /\ guardian_links' = guardian_links \cup {l}
                            /\ l.is_active
                            /\ \E q \in patients :
                                  /\ q._id = l.patient_id
                                  /\ q.guardian_code = calls[p].guardian_code
                            /\ \E g \in guardians :
                                  /\ g._id = l.guardian_id
                                  /\ g.user_id = calls[p].guardian_user_id
                    ELSE guardian_links' = guardian_links
         ]_vars

\* the patient holding 999999 and the guardian of user 6 are linked, and no
\* other link has been made
C13_Witness ==
    /\ Cardinality(guardian_links) = 1
    /\ \E l \in guardian_links : /\ l.patient_id = 4
                                 /\ l.guardian_id = 8
                                 /\ l.is_active

\* a time string of the form HH:MM on the 24-hour clock
IsHHMM(t) ==
    /\ Len(t) = 5
    /\ t[3] = ":"
    /\ \A i \in {1, 2, 4, 5} : IsDigit(t[i])
    /\ DigitValue(t[1]) * 10 + DigitValue(t[2]) <= 23
    /\ DigitValue(t[4]) <= 5

\* C14: every stored medication has a non-empty times list whose entries
\* all parse as 24-hour HH:MM, whatever add_medication and
\* update_medication calls have been made.
C14_TimesValid ==
    \A m \in medications :
       /\ m.times # <<>>
       /\ \A i \in 1..Len(m.times) : IsHHMM(m.times[i])

\* C15: add_medication fails with the missing-field error if name, dosage,
\* frequency or times is absent or times is empty, with the invalid-time
\* error if a time string is not HH:MM, and with the patient-not-found error
\* if the patient id does not resolve; a failing call leaves medications as
\* it is, and a successful one stores exactly one medication, of that
\* patient and active.
C15_AddMedicationErrors ==
    [][ \A patient_id \in (PatientIds \cup {nextId}) \ {0}, med_name \in MedNames,
           dosage \in Dosages, frequency \in Frequencies,
           times \in TimesInputsWide :
           AddMedication(patient_id, med_name, dosage, frequency, times) =>
              LET e == add_medication_check(patient_id, med_name, dosage,
                                            frequency, times)
                  missing == med_name = "" \/ dosage = "" \/ frequency = ""
                             \/ times = <<>>
                  malformed == \E i \in 1..Len(times) : ~IsHHMM(times[i])
                  resolves == \E q \in patients : q._id = patient_id
              IN /\ missing => e = "All required fields must be provided"
                 /\ (~missing /\ malformed) => e = "Invalid time format"
                 /\ (~missing /\ ~malformed /\ ~resolves) => e = "Patient not found"
                 /\ e # None => medications' = medications
                 /\ e = None =>
                       \E m \in medications' \ medications :
                          /\ medications' = medications \cup {m}
                          /\ m.patient_id = patient_id
                          /\ m.is_active
      ]_vars

\* C16: search_pharmacies_by_medication returns exactly the pharmacies with
\* an inventory item whose name contains the query, case ignored, and that
\* same item in stock; a pharmacy whose only matching item is out of stock
\* is not returned.
C16_SearchInStock ==
    \A query \in Queries \ {<<>>} :
       search_pharmacies_by_medication(query)
       = {ph \in pharmacies :
            \E i \in 1..Len(ph.inventory) :
               /\ regex_i(ph.inventory[i].medication_name, query)
               /\ ph.inventory[i].in_stock}

\* the items of an inventory whose name is the given name, case ignored
SameNameItems(inventory, medication_name) ==
    {i \in 1..Len(inventory) :
        lower(inventory[i].medication_name) = lower(medication_name)}

\* C17: no inventory holds two items whose names are equal ignoring case; a
\* call of add_pharmacy_inventory whose name matches an item, case ignored,
\* updates the price, in_stock and updated_at of that item in place and
\* leaves the length of the inventory unchanged; any other successful call
\* appends exactly one item.
C17_UniqueItemNames ==
    /\ [](\A ph \in pharmacies :
            \A i, j \in 1..Len(ph.inventory) :
               lower(ph.inventory[i].medication_name)
               = lower(ph.inventory[j].medication_name) => i = j)
    /\ [][ \A pharmacy_id \in PharmacyIds, medication_name \in ItemNames,
             price \in Prices, in_stock \in BOOLEAN :
             (/\ AddPharmacyInventory(pharmacy_id, medication_name, price, in_stock)
              /\ add_pharmacy_inventory_result(pharmacy_id, medication_name, price).ok)
             => \A ph \in pharmacies :
                  ph._id = pharmacy_id =>
                     \E qh \in pharmacies' :
                        /\ qh._id = ph._id
                        /\ IF SameNameItems(ph.inventory, medication_name) # {}
                           THEN /\ Len(qh.inventory) = Len(ph.inventory)
                                /\ \A i \in 1..Len(ph.inventory) :
                                     qh.inventory[i] =
                                        IF i \in SameNameItems(ph.inventory, medication_name)
                                        THEN [ph.inventory[i] EXCEPT
                                                 !.price = price,
                                                 !.in_stock = in_stock,
                                                 !.updated_at = now]
                                        ELSE ph.inventory[i]
                           ELSE /\ Len(qh.inventory) = Len(ph.inventory) + 1
                                /\ SubSeq(qh.inventory, 1, Len(ph.inventory))
                                   = ph.inventory ]_vars

\* C18: add_pharmacy_inventory fails with the invalid-price error exactly
\* when the price is negative; for a stored pharmacy every price >= 0, 0
\* included, is accepted and stored; for an id that is no pharmacy's it
\* fails with "Pharmacy not found" and changes nothing.
C18_PriceValidation ==
    /\ [](\A pharmacy_id \in PharmacyIds \ {0},
            medication_name \in ItemNames \ {<<>>}, price \in Prices :
            LET e == add_pharmacy_inventory_check(pharmacy_id, medication_name, price)
                stored == \E ph \in pharmacies : ph._id = pharmacy_id
            IN /\ (e = "Price must be a positive number") <=> (price < 0)
               /\ (price >= 0 /\ stored) => e = None
               /\ (price >= 0 /\ ~stored) => e = "Pharmacy not found")
    /\ [][ \A pharmacy_id \in PharmacyIds \ {0},
             medication_name \in ItemNames \ {<<>>},
             price \in Prices, in_stock \in BOOLEAN :
             AddPharmacyInventory(pharmacy_id, medication_name, price, in_stock)
             => IF price >= 0 /\ \E ph \in pharmacies : ph._id = pharmacy_id
                THEN \E ph \in pharmacies' :
                        /\ ph._id = pharmacy_id
                        /\ \E i \in 1..Len(ph.inventory) :
                              /\ ph.inventory[i].price = price
                              /\ ph.inventory[i].in_stock = in_stock
                ELSE pharmacies' = pharmacies ]_vars

\* the medication ids of the rows of a list of medications or schedule items
RowIds(rows, field) == {rows[i][field] : i \in 1..Len(rows)}

\* the days get_medication_compliance is asked for: its default
ComplianceDays == 7

other_collections ==
    <<users, patients, guardians, pharmacies, medication_logs, symptoms,
      guardian_links>>

\* the medication ids given out so far that no stored medication has
DeletedIds ==
    (1..(nextId - 1)) \ ({u._id : u \in users} \cup {q._id : q \in patients}
                          \cup {m._id : m \in medications})

\* C20: delete_medication removes the medication with that id and nothing
\* else: every other medication and every other collection stay as they are,
\* a second delete_medication of the id returns "Medication not found", and
\* the id is never stored again, so that no read returns the medication; on
\* an id that is not stored delete_medication returns "Medication not found".
C20_Delete ==
    /\ [](\A medication_id \in MedIds \ {0} :
            LET r == delete_medication_result(medication_id) IN
            IF \E m \in medications : m._id = medication_id
            THEN r.ok
            ELSE ~r.ok /\ r.error = "Medication not found")
    /\ [](\A id \in DeletedIds, q \in patients :
            /\ id \notin RowIds(get_patient_medications(medications, q._id), "_id")
            /\ id \notin RowIds(get_today_medications(medications,
                                   medication_logs, now, q._id), "medication_id"))
    /\ [][ /\ \A id \in DeletedIds : id \in DeletedIds'
           /\ \A medication_id \in MedIds \ {0} :
                DeleteMedication(medication_id)
                => /\ medications' =
                         medications \ {m \in medications : m._id = medication_id}
                   /\ Cardinality(medications') = Cardinality(medications) - 1
                   /\ other_collections' = other_collections
                   /\ ~delete_medication_result(medication_id).ok' ]_vars

\* a medication with a log has been deleted and another one is stored
C20_Witness ==
    /\ medications # {}
    /\ \E l \in medication_logs : l.medication_id \in DeletedIds

\* C21: update_medication is a partial patch: a successful call sets the
\* non-null fields it is given, and updated_at, on the one medication with
\* that id and leaves its other fields, the other medications and the other
\* collections as they are; with no non-null field, or an id no medication
\* has, it returns an error.
C21_PartialPatch ==
    /\ [](\A medication_id \in MedIds, updates \in UpdateInputsWide :
            LET r == update_medication_result(medication_id, updates) IN
            r.ok <=> /\ DOMAIN non_null(updates) # {}
                     /\ medication_id # 0
                     /\ \E m \in medications : m._id = medication_id)
    /\ [][ \A medication_id \in MedIds, updates \in UpdateInputsWide :
             (medications' # medications /\ UpdateMedication(medication_id, updates))
             => \E m \in medications, n \in medications' :
                  /\ m._id = medication_id
                  /\ n._id = medication_id
                  /\ medications' = (medications \ {m}) \cup {n}
                  /\ DOMAIN m \cup {"updated_at"} \subseteq DOMAIN n
                  /\ \A k \in DOMAIN n :
                       IF k \in DOMAIN non_null(updates)
                       THEN n[k] = non_null(updates)[k]
                       ELSE IF k = "updated_at" THEN n[k] = now
                       ELSE k \in DOMAIN m /\ n[k] = m[k]
                  /\ other_collections' = other_collections ]_vars

\* a medication has a patched dosage and the times it was added with
C21_Witness ==
    \E m \in medications :
       /\ "updated_at" \in DOMAIN m
       /\ m.dosage = "10mg"
       /\ m.times = <<t2000, t0800>>

\* C22: log_medication_taken does not deduplicate: every successful call
\* adds exactly one log, with status "taken" and the date of its taken time,
\* and changes no log that is stored, also when a log of the medication with
\* that date is stored already.
C22_NoDeduplication ==
    [][ medication_logs' # medication_logs =>
        \A patient_id \in PatientIds, medication_id \in MedIds,
          taken_at \in TakenAts :
          LogMedicationTaken(patient_id, medication_id, taken_at)
          => /\ log_medication_taken_result(patient_id, medication_id).ok
             /\ medication_logs \subseteq medication_logs'
             /\ Cardinality(medication_logs') = Cardinality(medication_logs) + 1
             /\ \A l \in medication_logs' \ medication_logs :
                  /\ l.status = "taken"
                  /\ l.patient_id = patient_id
                  /\ l.medication_id = medication_id
                  /\ l.date = isoformat(date(IF taken_at # 0 THEN taken_at
                                              ELSE now)) ]_vars

\* two logs of one medication with one date are stored
C22_Witness ==
    \E l, k \in medication_logs :
       /\ l # k
       /\ l.medication_id = k.medication_id
       /\ l.date = k.date

\* C23: authenticate_user returns the id, role and email of the user exactly
\* when a user with that email is stored, is active, and the password
\* matches the stored hash; for an unknown email, a wrong password, an
\* inactive user or a missing input it returns the same None.
C23_Authenticate ==
    \A email \in AuthEmails, password \in AuthPasswords :
       LET r == authenticate_user(email, password)
           matching == {u \in users : /\ u.email = email
                                      /\ u.is_active
                                      /\ u.password = hashpw(password, u.password.salt)}
       IN IF matching # {}
          THEN \E u \in matching :
                  r = Some([user_id |-> u._id, role |-> u.role, email |-> u.email])
          ELSE r = NoneArg

\* an active and an inactive user are stored; the active one logs in, the
\* inactive one does not, with the passwords they registered with
C23_Witness ==
    \E u, v \in users :
       /\ u.is_active /\ ~v.is_active
       /\ \E password \in AuthPasswords :
             /\ authenticate_user(u.email, password) # NoneArg
             /\ v.password = hashpw(password, v.password.salt)
             /\ authenticate_user(v.email, password) = NoneArg

\* C24: the rows get_today_medications returns are in non-decreasing order
\* of their time strings, compared as strings, across all the medications of
\* the patient.
C24_SortedByTime ==
    \A q \in patients :
       LET rows == TodayRows(q._id)
       IN \A i, j \in 1..Len(rows) :
             i < j => ~StrLess(rows[j].time, rows[i].time)

\* the rows of a patient come from two medications, each stored with the
\* later time first
C24_Witness ==
    \E q \in patients :
       /\ Len(TodayRows(q._id)) = 4
       /\ \E m, n \in medications :
             /\ m._id # n._id
             /\ m.patient_id = q._id /\ n.patient_id = q._id
             /\ m.is_active /\ n.is_active
             /\ m.times = <<t2000, t0800>> /\ n.times = <<t2000, t0800>>

\* C25: get_medication_compliance returns the error "Days must be between 1
\* and 365" exactly when days < 1 or days > 365, whatever the patient and
\* whatever is stored.
C25_DaysRange ==
    \A patient_id \in PatientIds \cup {nextId}, days \in DaysInputs :
       LET r == get_medication_compliance(medications, medication_logs, now,
                                          patient_id, days)
       IN IF days < 1 \/ days > 365
          THEN r = [error |-> "Days must be between 1 and 365"]
          ELSE "error" \notin DOMAIN r

\* a patient with an active medication and a log: 0 and 366 days are refused,
\* 365 days are answered
C25_Witness ==
    \E q \in patients :
       /\ ActiveOf(q._id) # {}
       /\ \E l \in medication_logs : l.patient_id = q._id
       /\ "error" \in DOMAIN get_medication_compliance(medications,
                                medication_logs, now, q._id, 0)
       /\ "error" \in DOMAIN get_medication_compliance(medications,
                                medication_logs, now, q._id, 366)
       /\ get_medication_compliance(medications, medication_logs, now,
                                    q._id, 365).taken_doses >= 1

\* C26: every medication log references a medication that is stored and
\* belongs to the patient of the log.
C26_LogsReferenceMedication ==
    \A l \in medication_logs :
       \E m \in medications : /\ m._id = l.medication_id
                              /\ m.patient_id = l.patient_id

\* C27: for every days in 1..365 get_medication_compliance returns
\* taken_doses <= expected_doses and a compliance_percentage from 0 to 100
\* (0 to 1000 tenths of a percent), also after medications with logs have
\* been deactivated or deleted and with several logs of one medication on
\* one day.
C27_ComplianceBounded ==
    \A q \in patients, days \in DaysInputs :
       (days >= 1 /\ days <= 365) =>
          LET r == get_medication_compliance(medications, medication_logs,
                                             now, q._id, days)
          IN /\ r.taken_doses <= r.expected_doses
             /\ r.compliance_percentage >= 0
             /\ r.compliance_percentage <= 1000

\* C28: after a PUT /api/medications/<id> of the owning patient that
\* reports success, get_patient_medications and get_today_medications return
\* the medication with the name, dosage, frequency and times of the request.
C28_PutIsRead ==
    [][ medications' # medications =>
        \A c \in Clients, medication_id \in MedIds, data \in PutData :
          (/\ put_medication_status(c, medication_id, data) = 200
           /\ RoutePutMedication(c, medication_id, data))
          => LET patient_id ==
                    first_of(get_patient_by_user_id(session[c].user_id))._id
                 meds == get_patient_medications(medications', patient_id)
                 rows == get_today_medications(medications', medication_logs',
                                               now', patient_id)
             IN /\ \E i \in 1..Len(meds) :
                      /\ meds[i]._id = medication_id
                      /\ meds[i].medication_name = data.medication_name
                      /\ meds[i].dosage = data.dosage
                      /\ meds[i].frequency = data.frequency
                      /\ meds[i].times = data.times
                /\ \E i \in 1..Len(rows) : rows[i].medication_id = medication_id
                /\ \A i \in 1..Len(rows) :
                      rows[i].medication_id = medication_id
                      => /\ rows[i].medication_name = data.medication_name
                         /\ rows[i].dosage = data.dosage
                         /\ rows[i].frequency = data.frequency
                         /\ rows[i].time \in {data.times[j] :
                                                j \in 1..Len(data.times)} ]_vars

\* the session of the client has the role patient and belongs to a user
\* whose patient profile owns the medication with that id
OwnerSession(c, medication_id) ==
    /\ has_user(c)
    /\ session[c].role = "patient"
    /\ \E q \in patients, m \in medications :
          /\ q.user_id = session[c].user_id
          /\ m._id = medication_id
          /\ m.patient_id = q._id

\* C29: through the routes a medication is updated, deleted or logged as
\* taken only by a request whose session has the role patient and whose
\* patient profile owns the medication; a PUT, DELETE or take_medication
\* request with any other session leaves medications and medication_logs
\* as they are.
C29_OwnerOnly ==
    [][ <<medications, medication_logs>>' # <<medications, medication_logs>> =>
        /\ \A m \in medications :
              (\/ m \notin medications'
               \/ \E l \in medication_logs' \ medication_logs :
                     l.medication_id = m._id)
              => \E c \in Clients : OwnerSession(c, m._id)
        /\ \A c \in Clients, medication_id \in MedIds :
              ~OwnerSession(c, medication_id)
              => /\ ~RouteDeleteMedication(c, medication_id)
                 /\ ~RouteTakeMedication(c, medication_id)
                 /\ \A data \in PutData :
                       ~RoutePutMedication(c, medication_id, data) ]_vars

\* a medication has been updated and logged as taken by its owner, and the
\* client is now logged in as the other patient
C29_Witness ==
    \E m \in medications :
       /\ "updated_at" \in DOMAIN m
       /\ \E l \in medication_logs : l.medication_id = m._id
       /\ \E c \in Clients :
             /\ has_user(c) /\ session[c].role = "patient"
             /\ ~OwnerSession(c, m._id)

\* the client sends one of the requests that change the store
RouteRequest(c) ==
    \/ \E data \in AddData : RouteAddMedication(c, data)
    \/ \E medication_id \in MedIds, data \in PutData :
          RoutePutMedication(c, medication_id, data)
    \/ \E medication_id \in MedIds :
          \/ RouteDeleteMedication(c, medication_id)
          \/ RouteTakeMedication(c, medication_id)
    \/ \E mood \in ScaleInputs : RouteLogSymptoms(c, mood, 5, 5)
    \/ \E p \in Procs, guardian_code \in LinkCodes :
          RouteGuardianLink(c, p, guardian_code)

\* C30: a session holds the id and role of a user only from a successful
\* login to the next logout: the session of a client changes only by a
\* logout, which empties it, or by a login that authenticate_user accepts,
\* which makes it that user's; and for a client without a session every
\* protected route refuses the request and leaves the store as it is.
C30_SessionLifetime ==
    /\ [](\A c \in Clients :
            IF has_user(c)
            THEN \E u \in users :
                    session[c] = [user_id |-> u._id, role |-> u.role,
                                  email |-> u.email]
            ELSE /\ session[c] = no_session
                 /\ dashboard_status(c) = 302
                 /\ medications_status(c) = 302
                 /\ \A data \in AddData : add_medication_status(c, data) = 401
                 /\ \A medication_id \in MedIds :
                       /\ \A data \in PutData :
                             put_medication_status(c, medication_id, data) = 401
                       /\ delete_medication_status(c, medication_id) = 401
                       /\ take_medication_status(c, medication_id) = 401
                 /\ \A mood \in ScaleInputs :
                       log_symptoms_status(c, mood, 5, 5) = 401
                 /\ \A guardian_code \in LinkCodes :
                       guardian_link_check(c, guardian_code) = 401)
    /\ [][ \A c \in Clients :
             /\ session[c]' # session[c]
                => \/ Logout(c) /\ session[c]' = no_session
                   \/ \E email \in SessionEmails, password \in LoginPasswords :
                         /\ authenticate_user(email, password) # NoneArg
                         /\ Login(c, email, password)
                         /\ session[c]'.user_id
                            = authenticate_user(email, password)[1].user_id
             /\ (~has_user(c) /\ RouteRequest(c))
                => store' = store /\ calls' = calls ]_vars

\* a medication has been added, one client has logged out since and holds
\* no session, and the other client is logged in as the guardian
C30_Witness ==
    /\ medications # {}
    /\ \E c, d \in Clients :
          /\ ~has_user(c)
          /\ has_user(d) /\ session[d].role = "guardian"
    /\ guardian_links # {}

============================================================================
